---- MODULE Spec2Model ----
(***************************************************************************)
(* Verification model of the chat client: the event-stream decoder, the    *)
(* session tracker / session state manager, the chat persistence cache,    *)
(* the single-conversation hook (useChat) and the comparison hook          *)
(* (useComparisonChat).                                                    *)
(*                                                                         *)
(* Text is modelled as a sequence of one-character strings, except on the  *)
(* wire of the decoder, where a body is a sequence of tokens (a token is a *)
(* run of bytes that the transport does not cut).                          *)
(***************************************************************************)
EXTENDS Integers, Sequences, FiniteSets, TLC

VARIABLES
  \* ---- event-stream decoder (ApiClient.streamResponse)
  dBody,        \* the whole response body, a sequence of wire tokens
  dChunks,      \* the chunks reader.read() has still to deliver
  dOut,         \* the values the generator has yielded so far
  dPc,          \* "reading" | "returned" | "threw" | "abandoned"
  dLock,        \* the reader holds the lock of the stream
  \* ---- clock
  now,          \* Date.now(), in milliseconds
  \* ---- session tracker and session state manager
  activeSessions,  \* SessionTracker.activeSessions: session id -> SessionState
  counter,         \* SessionIdGenerator.counter
  config,          \* SessionStateManager.config
  sessBound,       \* (history) session id -> the model(s) last bound to it
  lastResult,      \* (history) the last manager call: its arguments and result
  eventHandlers,   \* SessionTracker.eventHandlers: the listeners, in order
  destroyed,       \* (history) the ids destroySession has removed so far
  \* ---- chat persistence cache (module-level maps of chat-persistence.ts)
  persistedSingleChats,      \* key -> PersistedSingleChat
  persistedComparisonChats,  \* key -> PersistedComparisonChat
  \* ---- the single-conversation hook (useChat) and the page around it
  mounted,          \* the component that calls useChat is mounted
  inst,             \* the number of the hook instance (mounts so far)
  selectedModel,    \* the model prop (the page's selected model)
  chat,             \* useState<ChatState> (and the rate-limit flag)
  calls,            \* the sendMessage calls: position and locals of each
  activeRequestRef, \* activeRequestRef.current: a call's controller, 0 for null
  pageEvents,       \* (history) model changes, clears and unmounts so far
  lastSend,         \* (history) the arguments of the last sendMessage call
  \* ---- the comparison hook (useComparisonChat) and the page around it
  cmpMounted,        \* the component that calls useComparisonChat is mounted
  cmpInst,           \* the number of the hook instance (mounts so far)
  selectedLeft,      \* the leftModel prop
  selectedRight,     \* the rightModel prop
  cmp,               \* useState<ComparisonChatState> (and the rate-limit flag)
  cmpCalls,          \* the sendMessage calls: position and locals of each
  activeRequestsRef, \* activeRequestsRef.current: per side a call's controller
  \* ---- the comparison run of the comparison hook (its state without the messages)
  run,               \* comparisonId, liveMetrics, speedTestResults, speedTestError
  runCalls,          \* the sendMessage calls: position of each and of its streams
  runCleared,        \* (history) cleared or reset, and no sendMessage since
  \* ---- the window's beforeunload event
  unloadListeners,   \* the registered beforeunload listeners, in registration order
  unloaded           \* the beforeunload event has been dispatched

decVars == <<dBody, dChunks, dOut, dPc, dLock>>
sessVars == <<activeSessions, counter, config, sessBound, lastResult,
             eventHandlers, destroyed>>
persistVars == <<persistedSingleChats, persistedComparisonChats>>
chatVars == <<mounted, inst, selectedModel, chat, calls, activeRequestRef>>
cmpVars == <<cmpMounted, cmpInst, selectedLeft, selectedRight, cmp, cmpCalls,
             activeRequestsRef, run, runCalls, runCleared, unloadListeners, unloaded>>

vars == <<dBody, dChunks, dOut, dPc, dLock, now,
          activeSessions, counter, config, sessBound, lastResult,
          eventHandlers, destroyed,
          persistedSingleChats, persistedComparisonChats,
          mounted, inst, selectedModel, chat, calls, activeRequestRef, pageEvents,
          lastSend, cmpMounted, cmpInst, selectedLeft, selectedRight, cmp, cmpCalls,
          activeRequestsRef, run, runCalls, runCleared, unloadListeners, unloaded>>

\* ------------------------------------------------------------------ bounds

\* Lines in a response body of the decoder specification.
MaxLines == 2
\* Places where the transport cuts a body into chunks.
MaxCuts == 2
\* Length of a model id or model name.
MaxStrLen == 2
\* Sessions ever created in the session specification.
MaxSessions == 1
\* The last millisecond of the clock.
MaxClock == 1
\* Messages in a list handed to the persistence cache directly.
MaxSaved == 2
\* Entries in each map of the cache in the persistence specification.
MaxEntries == 1
\* sendMessage calls of the single-conversation hook.
MaxCalls == 2
\* Mounts of the component that calls useChat.
MaxMounts == 2
\* Chunks one response stream delivers before it ends.
MaxReads == 1
\* Model changes, clears and unmounts of the page in one behaviour.
MaxPageEvents == 1
\* sendMessage calls of the comparison hook.
MaxCmpCalls == 1

\* ------------------------------------------------------------ generic text

RECURSIVE Concat(_)
\* The concatenation of a sequence of sequences.
Concat(ss) == IF ss = <<>> THEN <<>> ELSE Head(ss) \o Concat(Tail(ss))

Range(s) == {s[i] : i \in 1..Len(s)}

\* ------------------------------------------------------- wire and framing

\* Wire tokens.  DATA is the prefix 'data: ', NL the line feed.
DATA == "data: "
NL == "NL"
DONE_SENTINEL == "[DONE]"

\* The payloads the backend sends, each cut in two tokens so that a chunk
\* boundary can fall inside a payload.
PayloadContentA == <<"{type:content,", "content:a}">>
PayloadContentB == <<"{type:content,", "content:b}">>
PayloadToolCalls == <<"{type:tool_calls,", "tool_calls:[f]}">>
PayloadFinish == <<"{type:finish_reason,", "finish_reason:stop}">>
PayloadDone == <<"{type:done", "}">>
PayloadError == <<"{type:error,", "error:boom}">>
PayloadMalformed == <<"{oops">>

\* JSON.parse(data): the parsed object of a complete payload, "SyntaxError"
\* for anything else (a fragment of a payload, the empty string, garbage).
JSONparse(data) ==
  CASE data = PayloadContentA -> [type |-> "content", value |-> <<"a">>]
    [] data = PayloadContentB -> [type |-> "content", value |-> <<"b">>]
    [] data = PayloadToolCalls -> [type |-> "tool_calls", value |-> <<"f">>]
    [] data = PayloadFinish -> [type |-> "finish_reason", value |-> <<"stop">>]
    [] data = PayloadDone -> [type |-> "done", value |-> <<>>]
    [] data = PayloadError -> [type |-> "error", value |-> <<"boom">>]
    [] OTHER -> [type |-> "SyntaxError", value |-> <<>>]

\* The lines a body is made of (without their line feed).
WireLines ==
  { <<DATA>> \o PayloadContentA, <<DATA>> \o PayloadContentB,
    <<DATA>> \o PayloadToolCalls, <<DATA>> \o PayloadFinish,
    <<DATA>> \o PayloadDone, <<DATA>> \o PayloadError,
    <<DATA>> \o PayloadMalformed, <<DATA, DONE_SENTINEL>>,
    <<": ping">>, <<>> }

RECURSIVE SplitNL(_, _)
\* chunk.split('\n'): cur is the line being assembled.
SplitNL(chunk, cur) ==
  IF chunk = <<>> THEN <<cur>>
  ELSE IF Head(chunk) = NL THEN <<cur>> \o SplitNL(Tail(chunk), <<>>)
  ELSE SplitNL(Tail(chunk), Append(cur, Head(chunk)))

split(chunk) == SplitNL(chunk, <<>>)

\* What one line of a chunk is to the loop body: "skip" (blank, no 'data: '
\* prefix), "sentinel" ([DONE]) or the result of JSON.parse on the payload.
\* line.trim() === '' holds of the empty line only: no token is white space.
FrameLine(line) ==
  IF line = <<>> THEN [type |-> "skip", value |-> <<>>]
  ELSE IF Head(line) # DATA THEN [type |-> "skip", value |-> <<>>]
  ELSE IF Tail(line) = <<DONE_SENTINEL>> THEN [type |-> "sentinel", value |-> <<>>]
  ELSE JSONparse(Tail(line))

\* The framed lines of one chunk, in order.
FrameChunk(chunk) ==
  LET ls == split(chunk) IN [i \in 1..Len(ls) |-> FrameLine(ls[i])]

\* --------------------------------------------- ApiClient.streamResponse

RECURSIVE StreamResponseLines(_, _)
\* The for loop over the lines of one chunk: the values yielded and whether
\* the generator returned ([DONE] or a done event).  The throw of an error
\* event happens inside the try whose catch only warns, so an error event
\* yields nothing and the loop goes on.
StreamResponseLines(ls, out) ==
  IF ls = <<>> THEN [out |-> out, returned |-> FALSE]
  ELSE LET p == Head(ls) IN
    CASE p.type = "sentinel" -> [out |-> out, returned |-> TRUE]
      [] p.type = "done" -> [out |-> out, returned |-> TRUE]
      [] p.type \in {"content", "tool_calls", "finish_reason"} ->
           StreamResponseLines(Tail(ls), Append(out, p))
      [] OTHER -> StreamResponseLines(Tail(ls), out)

\* decoder.decode + split + the for loop, for one chunk.
StreamResponseChunk(chunk) == StreamResponseLines(FrameChunk(chunk), <<>>)

\* The whole body delivered as one chunk.
DecodeWhole(body) == StreamResponseChunk(body).out

\* --- the bodies and their chunkings

RECURSIVE BodiesUpTo(_)
BodiesUpTo(n) ==
  IF n = 0 THEN {<<>>}
  ELSE LET shorter == BodiesUpTo(n - 1) IN
    shorter \cup {b \o l \o <<NL>> : b \in shorter, l \in WireLines}

RECURSIVE CutAt(_, _, _)
\* body cut after the positions in cuts (positions count from `from`).
CutAt(body, cuts, from) ==
  IF cuts = {} THEN <<body>>
  ELSE LET c == CHOOSE x \in cuts : \A y \in cuts : x <= y IN
    <<SubSeq(body, 1, c - from)>>
      \o CutAt(SubSeq(body, c - from + 1, Len(body)), cuts \ {c}, c)

Chunkings(body) ==
  { CutAt(body, cuts, 0) :
      cuts \in {cs \in SUBSET (1..(Len(body) - 1)) : Cardinality(cs) <= MaxCuts} }

\* ----------------------------------------------------- models and hashes

\* The characters of a model id or name; the underscore is the separator
\* the hash generator also uses.
ModelChars == {"a", "_"}

RECURSIVE StringsOfLen(_)
StringsOfLen(n) ==
  IF n = 0 THEN {<<>>}
  ELSE {Append(w, c) : w \in StringsOfLen(n - 1), c \in ModelChars}

\* The non-empty strings of at most MaxStrLen characters.
ModelStrings == UNION {StringsOfLen(n) : n \in 1..MaxStrLen}

\* ChatModel: id, name, provider (getModels sets provider to one constant).
ChatModels == [id : ModelStrings, name : ModelStrings, provider : {<<"F">>}]

\* null stands for a model that is not given (ChatModel | null).
NoModel == [id |-> <<>>, name |-> <<>>, provider |-> <<>>]

\* ModelHashGenerator.generateSingleModelHash:
\* `single_${model.id}_${model.name}_${model.provider}`
generateSingleModelHash(model) ==
  IF model = NoModel THEN <<"null">>
  ELSE <<"single", "_">> \o model.id \o <<"_">> \o model.name
         \o <<"_">> \o model.provider

\* `${m.id}_${m.name}_${m.provider}` or 'null'
SideHash(m) ==
  IF m = NoModel THEN <<"null">>
  ELSE m.id \o <<"_">> \o m.name \o <<"_">> \o m.provider

\* ModelHashGenerator.generateComparisonModelHash:
\* `comparison_${leftHash}_vs_${rightHash}`
generateComparisonModelHash(leftModel, rightModel) ==
  <<"comparison", "_">> \o SideHash(leftModel) \o <<"_", "vs", "_">>
    \o SideHash(rightModel)

\* ModelHashGenerator.compareHashes
compareHashes(hash1, hash2) == hash1 = hash2

\* ------------------------------------------------------- session tracker

NoConversation == "none"
NoSession == <<>>

\* An id made of the timestamp alone.
MutGenerateSessionId(t, c) == <<"session", t, 1>>

\* SessionIdGenerator.generateSessionId: `session_${timestamp}_${counter}`
\* with counter = ++this.counter.  Both parts are decimal numbers, so the
\* pair determines the string and the string the pair.
generateSessionId(t, c) == <<"session", t, c + 1>>

\* SessionTracker.getSession: the session, or null (NoSession).
getSession(sessions, sessionId) ==
  IF sessionId \in DOMAIN sessions THEN sessions[sessionId] ELSE NoSession

\* SessionTracker.createSession
createSession(sessions, sessionId, modelHash, conversationId, t) ==
  LET sessionState == [id |-> sessionId, isActive |-> TRUE, lastActivity |-> t,
                       modelHash |-> modelHash, conversationId |-> conversationId]
  IN [x \in DOMAIN sessions \cup {sessionId} |->
        IF x = sessionId THEN sessionState ELSE sessions[x]]

\* updateActivity without the test for a missing session: the map gets an
\* entry for whatever id it is called with.
MutUpdateActivity(sessions, sessionId, t) ==
  IF sessionId \in DOMAIN sessions
  THEN [sessions EXCEPT ![sessionId].lastActivity = t]
  ELSE createSession(sessions, sessionId, <<>>, NoConversation, t)

\* SessionTracker.updateActivity
updateActivity(sessions, sessionId, t) ==
  IF sessionId \in DOMAIN sessions
  THEN [sessions EXCEPT ![sessionId].lastActivity = t]
  ELSE sessions

\* updateModelHash that records the activity and leaves the hash.
MutUpdateModelHash(sessions, sessionId, newModelHash, t) ==
  IF sessionId \in DOMAIN sessions
  THEN [sessions EXCEPT ![sessionId].lastActivity = t]
  ELSE sessions

\* SessionTracker.updateModelHash
updateModelHash(sessions, sessionId, newModelHash, t) ==
  IF sessionId \in DOMAIN sessions
  THEN [sessions EXCEPT ![sessionId].modelHash = newModelHash,
                        ![sessionId].lastActivity = t]
  ELSE sessions

\* resetSession that also forgets the model hash.
MutResetSession(sessions, sessionId, t) ==
  IF sessionId \in DOMAIN sessions
  THEN [sessions EXCEPT ![sessionId].lastActivity = t,
                        ![sessionId].conversationId = NoConversation,
                        ![sessionId].modelHash = <<"null">>]
  ELSE sessions

\* SessionTracker.resetSession: keeps id and modelHash.
resetSession(sessions, sessionId, t) ==
  IF sessionId \in DOMAIN sessions
  THEN [sessions EXCEPT ![sessionId].lastActivity = t,
                        ![sessionId].conversationId = NoConversation]
  ELSE sessions

\* SessionTracker.destroySession
destroySession(sessions, sessionId) ==
  [x \in DOMAIN sessions \ {sessionId} |-> sessions[x]]

\* -------------------------------------------------- session state manager

DEFAULT_SESSION_CONFIG == [autoReset |-> TRUE, resetOnModelChange |-> TRUE]

\* The decision taken on the hashes alone, whatever the configuration.
MutShouldResetOnSingleModelChange(cfg, sessions, currentSessionId, newModel) ==
  IF getSession(sessions, currentSessionId) = NoSession THEN FALSE
  ELSE ~compareHashes(sessions[currentSessionId].modelHash,
                      generateSingleModelHash(newModel))

\* SessionStateManager.shouldResetOnSingleModelChange
shouldResetOnSingleModelChange(cfg, sessions, currentSessionId, newModel) ==
  IF ~cfg.resetOnModelChange THEN FALSE
  ELSE IF getSession(sessions, currentSessionId) = NoSession THEN FALSE
  ELSE ~compareHashes(sessions[currentSessionId].modelHash,
                      generateSingleModelHash(newModel))

\* SessionStateManager.shouldResetOnComparisonModelChange
shouldResetOnComparisonModelChange(cfg, sessions, currentSessionId, newLeft, newRight) ==
  IF ~cfg.resetOnModelChange THEN FALSE
  ELSE IF getSession(sessions, currentSessionId) = NoSession THEN FALSE
  ELSE ~compareHashes(sessions[currentSessionId].modelHash,
                      generateComparisonModelHash(newLeft, newRight))

\* The body the two model-change handlers share, given the decision and the
\* new hash: the tracker afterwards, the counter, the result, and whether
\* onReset was invoked.
HandleModelChange(cfg, sessions, cnt, currentSessionId, shouldReset, newHash, t) ==
  IF shouldReset
  THEN IF cfg.autoReset
       THEN [sessions |-> updateModelHash(resetSession(sessions, currentSessionId, t),
                                          currentSessionId, newHash, t),
             counter |-> cnt, shouldReset |-> TRUE,
             sessionId |-> currentSessionId, onReset |-> TRUE]
       ELSE LET sid == generateSessionId(t, cnt) IN
            [sessions |-> createSession(sessions, sid, newHash, NoConversation, t),
             counter |-> cnt + 1, shouldReset |-> TRUE,
             sessionId |-> sid, onReset |-> FALSE]
  ELSE [sessions |-> updateActivity(sessions, currentSessionId, t),
        counter |-> cnt, shouldReset |-> FALSE,
        sessionId |-> currentSessionId, onReset |-> FALSE]

\* SessionStateManager.handleSingleModelChange
handleSingleModelChange(cfg, sessions, cnt, currentSessionId, newModel, t) ==
  HandleModelChange(cfg, sessions, cnt, currentSessionId,
    shouldResetOnSingleModelChange(cfg, sessions, currentSessionId, newModel),
    generateSingleModelHash(newModel), t)

\* SessionStateManager.handleComparisonModelChange
handleComparisonModelChange(cfg, sessions, cnt, currentSessionId, newLeft, newRight, t) ==
  HandleModelChange(cfg, sessions, cnt, currentSessionId,
    shouldResetOnComparisonModelChange(cfg, sessions, currentSessionId, newLeft, newRight),
    generateComparisonModelHash(newLeft, newRight), t)

\* -------------------------------------------------------------- messages

NoError == "none"

\* Message.  origin is history: the id(s) of the model(s) that were selected
\* when sendMessage created the message.
Message(id, role, content, isStreaming, origin) ==
  [id |-> id, role |-> role, content |-> content, isStreaming |-> isStreaming,
   error |-> NoError, thinking |-> <<>>, tool_calls |-> <<>>, origin |-> origin]

\* ------------------------------------------------- chat persistence cache

\* The UTF-16 code unit of a character: Array.prototype.sort orders the ids
\* by code units.
CharCode(c) == IF c = "_" THEN 95 ELSE 97

RECURSIVE StringLess(_, _)
\* s < t as JavaScript compares strings.
StringLess(s, t) ==
  IF t = <<>> THEN FALSE
  ELSE IF s = <<>> THEN TRUE
  ELSE IF CharCode(Head(s)) # CharCode(Head(t))
       THEN CharCode(Head(s)) < CharCode(Head(t))
  ELSE StringLess(Tail(s), Tail(t))

\* generateSingleChatKey: `single_${modelId}`
generateSingleChatKey(modelId) == <<"single", "_">> \o modelId

\* generateComparisonChatKey: the two ids sorted, then
\* `comparison_${sortedIds[0]}_${sortedIds[1]}`
generateComparisonChatKey(leftModelId, rightModelId) ==
  LET sortedIds == IF StringLess(rightModelId, leftModelId)
                   THEN <<rightModelId, leftModelId>>
                   ELSE <<leftModelId, rightModelId>>
  IN <<"comparison", "_">> \o sortedIds[1] \o <<"_">> \o sortedIds[2]

MapSet(m, k, v) == [x \in DOMAIN m \cup {k} |-> IF x = k THEN v ELSE m[x]]
MapDelete(m, k) == [x \in DOMAIN m \ {k} |-> m[x]]

\* ChatPersistenceManager.saveSingleChat
saveSingleChat(single, model, messages, t) ==
  IF model.id = <<>> THEN single
  ELSE MapSet(single, generateSingleChatKey(model.id),
              [messages |-> messages, modelId |-> model.id, lastUpdated |-> t])

\* ChatPersistenceManager.getSingleChat
getSingleChat(single, model) ==
  IF model.id = <<>> THEN <<>>
  ELSE LET key == generateSingleChatKey(model.id) IN
    IF key \in DOMAIN single /\ single[key].modelId = model.id
    THEN single[key].messages ELSE <<>>

\* ChatPersistenceManager.clearSingleChat
clearSingleChat(single, model) ==
  IF model.id = <<>> THEN single
  ELSE MapDelete(single, generateSingleChatKey(model.id))

\* ChatPersistenceManager.saveComparisonChat
saveComparisonChat(comparison, leftModel, rightModel, leftMessages, rightMessages, t) ==
  IF leftModel.id = <<>> \/ rightModel.id = <<>> THEN comparison
  ELSE MapSet(comparison, generateComparisonChatKey(leftModel.id, rightModel.id),
              [leftChat |-> [messages |-> leftMessages],
               rightChat |-> [messages |-> rightMessages],
               leftModelId |-> leftModel.id, rightModelId |-> rightModel.id,
               lastUpdated |-> t])

NoComparisonChat == [leftMessages |-> <<>>, rightMessages |-> <<>>]

\* ChatPersistenceManager.getComparisonChat
getComparisonChat(comparison, leftModel, rightModel) ==
  IF leftModel.id = <<>> \/ rightModel.id = <<>> THEN NoComparisonChat
  ELSE LET key == generateComparisonChatKey(leftModel.id, rightModel.id) IN
    IF /\ key \in DOMAIN comparison
       /\ comparison[key].leftModelId = leftModel.id
       /\ comparison[key].rightModelId = rightModel.id
    THEN [leftMessages |-> comparison[key].leftChat.messages,
          rightMessages |-> comparison[key].rightChat.messages]
    ELSE NoComparisonChat

\* ChatPersistenceManager.clearComparisonChat
clearComparisonChat(comparison, leftModel, rightModel) ==
  IF leftModel.id = <<>> \/ rightModel.id = <<>> THEN comparison
  ELSE MapDelete(comparison, generateComparisonChatKey(leftModel.id, rightModel.id))

\* ----------------------------------------------------------------- clock

Tick ==
  /\ now < MaxClock
  /\ now' = now + 1

\* ------------------------------------------- the session specification

NoResult == [op |-> "none"]
EmptyMap == [x \in {} |-> x]

SessIdle ==
  /\ activeSessions = EmptyMap
  /\ counter = 0
  /\ config = DEFAULT_SESSION_CONFIG
  /\ sessBound = EmptyMap
  /\ lastResult = NoResult
  /\ eventHandlers = <<>>
  /\ destroyed = {}

SessInit == now = 0 /\ SessIdle

\* SessionStateManager.createSingleSession(model, conversationId)
CreateSingleSession ==
  /\ counter < MaxSessions
  /\ \E model \in ChatModels, conv \in {NoConversation, "conv"} :
       LET sid == generateSessionId(now, counter) IN
       /\ activeSessions' = createSession(activeSessions, sid,
                              generateSingleModelHash(model), conv, now)
       /\ sessBound' = [x \in DOMAIN sessBound \cup {sid} |->
                          IF x = sid THEN <<model>> ELSE sessBound[x]]
       /\ lastResult' = [op |-> "createSingleSession", sessionId |-> sid]
  /\ counter' = counter + 1
  /\ UNCHANGED <<config, eventHandlers, destroyed>>

\* SessionStateManager.handleSingleModelChange(currentSessionId, newModel)
HandleSingleModelChange ==
  \E sid \in DOMAIN activeSessions, newModel \in ChatModels :
    LET r == handleSingleModelChange(config, activeSessions, counter, sid, newModel, now) IN
    /\ r.sessionId = sid \/ counter < MaxSessions
    /\ activeSessions' = r.sessions
    /\ counter' = r.counter
    /\ sessBound' =
         IF ~r.shouldReset THEN sessBound
         ELSE [x \in DOMAIN sessBound \cup {r.sessionId} |->
                 IF x = r.sessionId THEN <<newModel>> ELSE sessBound[x]]
    /\ lastResult' = [op |-> "handleSingleModelChange", arg |-> sid,
                      newModel |-> newModel, bound |-> sessBound[sid],
                      hashBefore |-> activeSessions[sid].modelHash,
                      config |-> config,
                      shouldReset |-> r.shouldReset, sessionId |-> r.sessionId,
                      onReset |-> r.onReset]
    /\ UNCHANGED <<config, eventHandlers, destroyed>>

\* SessionStateManager.updateConfig
UpdateConfig ==
  /\ \E a \in BOOLEAN, r \in BOOLEAN :
       /\ config' = [autoReset |-> a, resetOnModelChange |-> r]
       /\ config' # config
  /\ lastResult' = [op |-> "updateConfig"]
  /\ UNCHANGED <<activeSessions, counter, sessBound, eventHandlers, destroyed>>

SessNext ==
  \/ CreateSingleSession /\ UNCHANGED <<now, decVars, persistVars, chatVars, pageEvents, lastSend, cmpVars>>
  \/ HandleSingleModelChange /\ UNCHANGED <<now, decVars, persistVars, chatVars, pageEvents, lastSend, cmpVars>>
  \/ UpdateConfig /\ UNCHANGED <<now, decVars, persistVars, chatVars, pageEvents, lastSend, cmpVars>>
  \/ Tick /\ UNCHANGED <<sessVars, decVars, persistVars, chatVars, pageEvents, lastSend, cmpVars>>

\* --------------------------------------- the persistence specification

PersistIdle ==
  /\ persistedSingleChats = EmptyMap
  /\ persistedComparisonChats = EmptyMap

\* The models of the model selector: the one-character ids, one name.
SelectableModels == {m \in ChatModels : m.name = <<"a">> /\ Len(m.id) = 1}

\* A conversation of alternating user and assistant messages, and its prefixes.
SampleConversation ==
  [i \in 1..MaxSaved |->
     IF i % 2 = 1 THEN Message(i, "user", <<"a">>, FALSE, <<>>)
     ELSE Message(i, "assistant", <<"b">>, FALSE, <<>>)]

SampleLists == {SubSeq(SampleConversation, 1, n) : n \in 0..MaxSaved}

PSaveSingleChat ==
  /\ \E model \in SelectableModels, messages \in SampleLists :
       /\ persistedSingleChats' = saveSingleChat(persistedSingleChats, model, messages, now)
       /\ lastResult' = [op |-> "saveSingleChat"]
  /\ Cardinality(DOMAIN persistedSingleChats') <= MaxEntries
  /\ UNCHANGED persistedComparisonChats

PGetSingleChat ==
  /\ \E model \in SelectableModels :
       lastResult' = [op |-> "getSingleChat", model |-> model,
                      result |-> getSingleChat(persistedSingleChats, model)]
  /\ UNCHANGED persistVars

PClearSingleChat ==
  /\ \E model \in SelectableModels :
       persistedSingleChats' = clearSingleChat(persistedSingleChats, model)
  /\ lastResult' = [op |-> "clearSingleChat"]
  /\ UNCHANGED persistedComparisonChats

PSaveComparisonChat ==
  /\ \E leftModel \in SelectableModels, rightModel \in SelectableModels,
        leftMessages \in SampleLists, rightMessages \in SampleLists :
       /\ persistedComparisonChats' =
            saveComparisonChat(persistedComparisonChats, leftModel, rightModel,
                               leftMessages, rightMessages, now)
       /\ lastResult' = [op |-> "saveComparisonChat"]
  /\ Cardinality(DOMAIN persistedComparisonChats') <= MaxEntries
  /\ UNCHANGED persistedSingleChats

PGetComparisonChat ==
  /\ \E leftModel \in SelectableModels, rightModel \in SelectableModels :
       lastResult' = [op |-> "getComparisonChat",
                      leftModel |-> leftModel, rightModel |-> rightModel,
                      result |-> getComparisonChat(persistedComparisonChats,
                                                   leftModel, rightModel)]
  /\ UNCHANGED persistVars

PClearComparisonChat ==
  /\ \E leftModel \in SelectableModels, rightModel \in SelectableModels :
       persistedComparisonChats' =
         clearComparisonChat(persistedComparisonChats, leftModel, rightModel)
  /\ lastResult' = [op |-> "clearComparisonChat"]
  /\ UNCHANGED persistedSingleChats

\* ChatPersistenceManager.clearAllChats
PClearAllChats ==
  /\ persistedSingleChats' = EmptyMap
  /\ persistedComparisonChats' = EmptyMap
  /\ lastResult' = [op |-> "clearAllChats"]

PersistFrame ==
  UNCHANGED <<now, decVars, activeSessions, counter, config, sessBound,
              eventHandlers, destroyed, chatVars, pageEvents, lastSend, cmpVars>>

PersistNext ==
  \/ PSaveSingleChat /\ PersistFrame
  \/ PGetSingleChat /\ PersistFrame
  \/ PClearSingleChat /\ PersistFrame
  \/ PSaveComparisonChat /\ PersistFrame
  \/ PGetComparisonChat /\ PersistFrame
  \/ PClearComparisonChat /\ PersistFrame
  \/ PClearAllChats /\ PersistFrame


\* ------------------------------------------------- parseThinkingContent

\* Text that carries thinking is a sequence in which each tag is one element.
THINK_OPEN == "<think>"
THINK_CLOSE == "</think>"

RECURSIVE TrimStart(_)
TrimStart(s) == IF s # <<>> /\ Head(s) = " " THEN TrimStart(Tail(s)) ELSE s

RECURSIVE TrimEnd(_)
TrimEnd(s) ==
  IF s # <<>> /\ s[Len(s)] = " " THEN TrimEnd(SubSeq(s, 1, Len(s) - 1)) ELSE s

\* String.prototype.trim
trim(s) == TrimEnd(TrimStart(s))

\* indexOf from a position: the first index of tok at or after from, 0 if none.
IndexFrom(s, tok, from) ==
  IF \E i \in from..Len(s) : s[i] = tok
  THEN CHOOSE i \in from..Len(s) : s[i] = tok /\ \A j \in from..(i - 1) : s[j] # tok
  ELSE 0

\* A parser that trims the text after an unclosed opening tag as well.
MutParseThinkingContent(fullContent) ==
  LET open == IndexFrom(fullContent, THINK_OPEN, 1)
      close == IF open = 0 THEN 0 ELSE IndexFrom(fullContent, THINK_CLOSE, open + 1)
  IN IF close # 0
     THEN [thinking |-> trim(SubSeq(fullContent, open + 1, close - 1)),
           content |-> trim(SubSeq(fullContent, 1, open - 1)
                            \o SubSeq(fullContent, close + 1, Len(fullContent)))]
     ELSE IF open # 0
     THEN [thinking |-> trim(SubSeq(fullContent, open + 1, Len(fullContent))),
           content |-> trim(SubSeq(fullContent, 1, open - 1))]
     ELSE [thinking |-> <<>>, content |-> fullContent]

\* parseThinkingContent (thinkingTime, a display number, is left out).
parseThinkingContent(fullContent) ==
  LET open == IndexFrom(fullContent, THINK_OPEN, 1)
      close == IF open = 0 THEN 0 ELSE IndexFrom(fullContent, THINK_CLOSE, open + 1)
  IN IF close # 0
     THEN [thinking |-> trim(SubSeq(fullContent, open + 1, close - 1)),
           content |-> trim(SubSeq(fullContent, 1, open - 1)
                            \o SubSeq(fullContent, close + 1, Len(fullContent)))]
     ELSE IF open # 0
     THEN [thinking |-> SubSeq(fullContent, open + 1, Len(fullContent)),
           content |-> trim(SubSeq(fullContent, 1, open - 1))]
     ELSE [thinking |-> <<>>, content |-> fullContent]

\* ------------------------------------------------------- useChat: state

InitialChatState ==
  [messages |-> <<>>, isLoading |-> FALSE, error |-> NoError,
   sessionId |-> NoSession, lastModelHash |-> <<>>, rateLimited |-> FALSE]

IdleCall ==
  [pc |-> "idle", inst |-> 0, sessionId |-> NoSession, asstId |-> 0,
   fullContent |-> <<>>, toolCalls |-> <<>>, reads |-> 0, aborted |-> FALSE,
   sawError |-> FALSE]

DAILY_LIMIT == "Daily limit exceeded"
FAILED_TO_GENERATE == "Failed to generate response"

\* prev.messages.map(msg => msg.id === id ? {...msg, content, thinking,
\*   tool_calls: toolCalls.length > 0 ? toolCalls : msg.tool_calls} : msg)
WithContent(messages, id, parsed, toolCalls) ==
  [i \in DOMAIN messages |->
     IF messages[i].id = id
     THEN [messages[i] EXCEPT !.content = parsed.content,
                              !.thinking = parsed.thinking,
                              !.tool_calls = IF toolCalls # <<>> THEN toolCalls ELSE @]
     ELSE messages[i]]

\* ... ? {...msg, tool_calls: toolCalls} : msg
WithToolCalls(messages, id, toolCalls) ==
  [i \in DOMAIN messages |->
     IF messages[i].id = id THEN [messages[i] EXCEPT !.tool_calls = toolCalls]
     ELSE messages[i]]

\* ... ? {...msg, isStreaming: false} : msg
WithStreamingDone(messages, id) ==
  [i \in DOMAIN messages |->
     IF messages[i].id = id THEN [messages[i] EXCEPT !.isStreaming = FALSE]
     ELSE messages[i]]

\* An update that puts the failed message back when the list no longer
\* holds it.
MutWithError(messages, id, err) ==
  IF \E i \in DOMAIN messages : messages[i].id = id
  THEN [i \in DOMAIN messages |->
          IF messages[i].id = id
          THEN [messages[i] EXCEPT !.error = err, !.isStreaming = FALSE, !.content = <<>>]
          ELSE messages[i]]
  ELSE Append(messages, [Message(id, "assistant", <<>>, FALSE, <<>>) EXCEPT !.error = err])

\* ... ? {...msg, error, isStreaming: false, content: ""} : msg
WithError(messages, id, err) ==
  [i \in DOMAIN messages |->
     IF messages[i].id = id
     THEN [messages[i] EXCEPT !.error = err, !.isStreaming = FALSE, !.content = <<>>]
     ELSE messages[i]]

RECURSIVE DispatchLines(_, _, _)
\* The for loop of sendMessage over the framed lines of one chunk.  acc holds
\* the locals fullContent, toolCalls and streamCompleted, the message list
\* the state updates are applied to, and (history) whether an error event
\* was seen.  The throw of an error event is caught by the catch that warns.
DispatchLines(ls, id, acc) ==
  IF ls = <<>> THEN acc
  ELSE LET p == Head(ls) IN
    CASE p.type \in {"sentinel", "done"} -> [acc EXCEPT !.streamCompleted = TRUE]
      [] p.type = "content" ->
           LET full == acc.fullContent \o p.value IN
           DispatchLines(Tail(ls), id,
             [acc EXCEPT !.fullContent = full,
                         !.messages = WithContent(@, id, parseThinkingContent(full),
                                                  acc.toolCalls)])
      [] p.type = "tool_calls" ->
           DispatchLines(Tail(ls), id,
             [acc EXCEPT !.toolCalls = p.value,
                         !.messages = WithToolCalls(@, id, p.value)])
      [] p.type = "error" ->
           DispatchLines(Tail(ls), id, [acc EXCEPT !.sawError = TRUE])
      [] OTHER -> DispatchLines(Tail(ls), id, acc)

\* ----------------------------------------------------- useChat: effects

\* What one pass of effects works on: the rendered state (chat), the state
\* the queued updates have produced so far (next), whether an update was
\* queued (any) and whether one assigned the message list (msgs), and the
\* module-level singletons.
World(st, sessions, cnt, single) ==
  [chat |-> st, next |-> st, any |-> FALSE, msgs |-> FALSE,
   sessions |-> sessions, counter |-> cnt, single |-> single]

\* The effect 'Handle model changes and session management'.
ModelChangeEffect(w, m, t) ==
  IF m = NoModel THEN w
  ELSE IF w.chat.sessionId = NoSession
  THEN LET sid == generateSessionId(t, w.counter)
           hash == generateSingleModelHash(m)
           persistedMessages == getSingleChat(w.single, m)
       IN [w EXCEPT !.sessions = createSession(@, sid, hash, NoConversation, t),
                    !.counter = @ + 1,
                    !.next = [@ EXCEPT !.sessionId = sid, !.lastModelHash = hash,
                                       !.messages = persistedMessages],
                    !.any = TRUE, !.msgs = TRUE]
  ELSE LET r == handleSingleModelChange(config, w.sessions, w.counter,
                                        w.chat.sessionId, m, t)
           n1 == IF r.onReset
                 THEN [w.next EXCEPT !.messages = <<>>, !.isLoading = FALSE,
                                     !.error = NoError]
                 ELSE w.next
           moved == r.sessionId # w.chat.sessionId
           n2 == IF moved THEN [n1 EXCEPT !.sessionId = r.sessionId] ELSE n1
           rehash == /\ r.sessionId \in DOMAIN r.sessions
                     /\ r.sessions[r.sessionId].modelHash # w.chat.lastModelHash
           n3 == IF rehash
                 THEN [n2 EXCEPT !.lastModelHash = r.sessions[r.sessionId].modelHash]
                 ELSE n2
       IN [w EXCEPT !.sessions = r.sessions, !.counter = r.counter, !.next = n3,
                    !.any = @ \/ r.onReset \/ moved \/ rehash,
                    !.msgs = @ \/ r.onReset]

\* The effect 'Save messages whenever they change'.
SaveEffect(w, m, t) ==
  IF m # NoModel /\ w.chat.messages # <<>>
  THEN [w EXCEPT !.single = saveSingleChat(@, m, w.chat.messages, t)]
  ELSE w

\* One pass of the effects of a render, in the order of their declaration.
\* (The one-element sets bind each intermediate world to its value.)
EffectsPass(w, m, t, runModel, runSave) ==
  CHOOSE w2 \in
    { IF runSave THEN SaveEffect(w1, m, t) ELSE w1 :
        w1 \in { IF runModel THEN ModelChangeEffect(w0, m, t) ELSE w0 :
                   w0 \in {[w EXCEPT !.next = w.chat, !.any = FALSE,
                                     !.msgs = FALSE]} } } : TRUE

RECURSIVE Flush(_, _, _, _, _)
\* The effects of a commit, and of the commits their updates cause, until a
\* render queues nothing.  runModel / runSave: a dependency of the effect
\* changed in this render.
Flush(w, m, t, runModel, runSave) ==
  CHOOSE r \in
    { IF ~w2.any THEN w2
      ELSE Flush([w2 EXCEPT !.chat = w2.next], m, t, TRUE, w2.msgs) :
        w2 \in {EffectsPass(w, m, t, runModel, runSave)} } : TRUE

\* The singletons and the state after a commit and its effects.
Commit(st, sessions, cnt, single, m, runModel, runSave) ==
  \E w \in {Flush(World(st, sessions, cnt, single), m, now, runModel, runSave)} :
    /\ chat' = w.chat
    /\ activeSessions' = w.sessions
    /\ counter' = w.counter
    /\ persistedSingleChats' = w.single

\* ----------------------------------------------------- useChat: actions

\* No sendMessage call has been made yet.
NoSend == [content |-> <<>>, hasValidApiKey |-> FALSE, made |-> FALSE]

\* The texts a user submits: a question, and white space only.
SendContents == {<<"q">>, <<" ">>}

\* A guard that tests the text without trimming it.
MutCanSend(content, m, sessionId) ==
  content # <<>> /\ m # NoModel /\ sessionId # NoSession

\* if (!content.trim() || !model || !state.sessionId) return
CanSend(content, m, sessionId) ==
  trim(content) # <<>> /\ m # NoModel /\ sessionId # NoSession

ChatIdle ==
  /\ mounted = FALSE
  /\ inst = 0
  /\ selectedModel = NoModel
  /\ chat = InitialChatState
  /\ calls = [c \in 1..MaxCalls |-> IdleCall]
  /\ activeRequestRef = 0
  /\ pageEvents = 0
  /\ lastSend = NoSend

\* The page before the component that calls useChat is mounted.
ChatInit ==
  /\ mounted = FALSE
  /\ inst = 0
  /\ selectedModel \in SelectableModels \cup {NoModel}
  /\ chat = InitialChatState
  /\ calls = [c \in 1..MaxCalls |-> IdleCall]
  /\ activeRequestRef = 0
  /\ pageEvents = 0
  /\ lastSend = NoSend

\* The chunks a response stream delivers to the hook: whole lines.
ChatChunks ==
  { <<DATA>> \o PayloadContentA \o <<NL>>,
    <<DATA>> \o PayloadContentA \o <<NL, DATA>> \o PayloadContentB \o <<NL>>,
    <<DATA>> \o PayloadToolCalls \o <<NL>>,
    <<DATA>> \o PayloadError \o <<NL, DATA>> \o PayloadContentB \o <<NL>>,
    <<DATA>> \o PayloadDone \o <<NL>>,
    <<DATA, DONE_SENTINEL, NL>> }

\* Liveness judged by the mounted flag alone, whichever instance is mounted.
MutLive(c) == mounted

\* A state update of call c reaches the state only while the hook instance
\* that made the call is mounted.
Live(c) == mounted /\ calls[c].inst = inst

\* The component mounts: useState initial values, then the effects.
Mount ==
  /\ ~mounted
  /\ inst < MaxMounts
  /\ mounted' = TRUE
  /\ inst' = inst + 1
  /\ activeRequestRef' = 0
  /\ Commit(InitialChatState, activeSessions, counter, persistedSingleChats,
            selectedModel, TRUE, TRUE)
  /\ UNCHANGED <<selectedModel, calls>>

\* The component unmounts: the cleanup aborts activeRequestRef.current.
Unmount ==
  /\ mounted
  /\ pageEvents < MaxPageEvents
  /\ pageEvents' = pageEvents + 1
  /\ mounted' = FALSE
  /\ chat' = InitialChatState
  /\ calls' = [c \in 1..MaxCalls |->
                 IF c = activeRequestRef THEN [calls[c] EXCEPT !.aborted = TRUE]
                 ELSE calls[c]]
  /\ activeRequestRef' = 0
  /\ UNCHANGED <<inst, selectedModel, activeSessions, counter, persistedSingleChats>>

\* The model prop changes while the hook is mounted.
ChangeModel ==
  /\ mounted
  /\ pageEvents < MaxPageEvents
  /\ pageEvents' = pageEvents + 1
  /\ \E m \in SelectableModels \ {selectedModel} :
       /\ selectedModel' = m
       /\ Commit(chat, activeSessions, counter, persistedSingleChats, m, TRUE, TRUE)
  /\ UNCHANGED <<mounted, inst, calls, activeRequestRef>>

\* sendMessage up to its first await that leaves the handler: the early
\* return of the validation, or the optimistic update.
SendMessage ==
  /\ mounted
  /\ \E content \in SendContents, hasValidApiKey \in BOOLEAN :
       /\ lastSend' = [content |-> content, hasValidApiKey |-> hasValidApiKey,
                       made |-> TRUE]
       /\ IF ~CanSend(content, selectedModel, chat.sessionId)
          THEN UNCHANGED <<chat, calls, activeRequestRef, activeSessions, counter,
                           persistedSingleChats>>
          ELSE \E c \in 1..MaxCalls :
            /\ calls[c].pc = "idle"
            /\ \A d \in 1..(c - 1) : calls[d].pc # "idle"
            /\ LET userMessage ==
                     Message(now, "user", trim(content), FALSE, selectedModel.id)
                   assistantMessage ==
                     Message(now + 1, "assistant", <<>>, TRUE, selectedModel.id)
                   st == [chat EXCEPT
                            !.messages = @ \o <<userMessage, assistantMessage>>,
                            !.isLoading = TRUE, !.error = NoError,
                            !.rateLimited = FALSE]
                   sessions1 == IF hasValidApiKey
                                THEN updateActivity(activeSessions, chat.sessionId, now)
                                ELSE activeSessions
               IN /\ calls' = [calls EXCEPT ![c] =
                       [IdleCall EXCEPT
                          !.pc = IF hasValidApiKey THEN "fetch" ELSE "quota",
                          !.inst = inst, !.sessionId = chat.sessionId,
                          !.asstId = now + 1]]
                  /\ activeRequestRef' = IF hasValidApiKey THEN c ELSE activeRequestRef
                  /\ Commit(st, sessions1, counter, persistedSingleChats,
                            selectedModel, TRUE, TRUE)
  /\ UNCHANGED <<mounted, inst, selectedModel>>

\* A catch that writes the failure's message into the conversation's error
\* field whatever the kind of the failure.
MutFailed(c, err, stateError, limited) ==
  IF Live(c)
  THEN [chat EXCEPT !.messages = WithError(@, calls[c].asstId, err),
                    !.isLoading = FALSE, !.error = err,
                    !.rateLimited = @ \/ limited]
  ELSE chat

\* The state after call c has finalized its message with an error.
Failed(c, err, stateError, limited) ==
  IF Live(c)
  THEN [chat EXCEPT !.messages = WithError(@, calls[c].asstId, err),
                    !.isLoading = FALSE, !.error = stateError,
                    !.rateLimited = @ \/ limited]
  ELSE chat

\* The commit of an update of call c and its effects.
CommitCall(c, st, sessions) ==
  Commit(st, sessions, counter, persistedSingleChats, selectedModel, Live(c), Live(c))

\* backgroundTasks: apiClient.countMessage() settles.
CountMessageSettles ==
  /\ \E c \in 1..MaxCalls, outcome \in {"ok", "rateLimit", "failure"} :
       /\ calls[c].pc = "quota"
       /\ IF outcome = "rateLimit"
          THEN /\ calls' = [calls EXCEPT ![c].pc = "limited"]
               /\ CommitCall(c, Failed(c, DAILY_LIMIT, NoError, TRUE), activeSessions)
               /\ UNCHANGED activeRequestRef
          ELSE /\ calls' = [calls EXCEPT ![c].pc = "fetch"]
               /\ activeRequestRef' = IF Live(c) THEN c ELSE activeRequestRef
               /\ activeSessions' = updateActivity(activeSessions, calls[c].sessionId, now)
               /\ UNCHANGED <<chat, counter, persistedSingleChats>>
  /\ UNCHANGED <<mounted, inst, selectedModel>>

\* apiClient.sendSingleChat settles: the stream, a 429, or another failure
\* (the only outcome once the signal is aborted).  A rejection here is
\* outside the inner try, so its finally does not run.
SendSingleChatSettles ==
  /\ \E c \in 1..MaxCalls, outcome \in {"ok", "rateLimit", "failure"} :
       /\ calls[c].pc = "fetch"
       /\ calls[c].aborted => outcome = "failure"
       /\ CASE outcome = "ok" ->
                 /\ calls' = [calls EXCEPT ![c].pc = "stream"]
                 /\ UNCHANGED <<chat, activeSessions, counter, persistedSingleChats>>
            [] outcome = "rateLimit" ->
                 /\ calls' = [calls EXCEPT ![c].pc = "limited"]
                 /\ CommitCall(c, Failed(c, DAILY_LIMIT, NoError, TRUE), activeSessions)
            [] outcome = "failure" ->
                 /\ calls' = [calls EXCEPT ![c].pc = "done"]
                 /\ CommitCall(c, Failed(c, FAILED_TO_GENERATE, "Error", FALSE),
                               activeSessions)
  /\ UNCHANGED <<mounted, inst, selectedModel, activeRequestRef>>

\* The state after the completion update of call c, given the message list
\* the updates of the last chunk have produced.
Completed(c, messages) ==
  IF Live(c)
  THEN [chat EXCEPT !.messages = WithStreamingDone(messages, calls[c].asstId),
                    !.isLoading = FALSE]
  ELSE chat

\* finally: activeRequestRef.current = null, on the ref of the call's instance.
Released(c) == IF Live(c) THEN 0 ELSE activeRequestRef

\* reader.read() delivers a chunk: split, the for loop, and, when the stream
\* is completed in this chunk, the completion update and the finally.
ReaderDelivers ==
  /\ \E c \in 1..MaxCalls, chunk \in ChatChunks :
       /\ calls[c].pc = "stream"
       /\ ~calls[c].aborted
       /\ calls[c].reads < MaxReads
       /\ LET acc == DispatchLines(FrameChunk(chunk), calls[c].asstId,
                       [fullContent |-> calls[c].fullContent,
                        toolCalls |-> calls[c].toolCalls,
                        streamCompleted |-> FALSE,
                        messages |-> chat.messages,
                        sawError |-> calls[c].sawError])
              st == IF acc.streamCompleted THEN Completed(c, acc.messages)
                    ELSE IF Live(c) THEN [chat EXCEPT !.messages = acc.messages]
                    ELSE chat
          IN /\ calls' = [calls EXCEPT
                  ![c].pc = IF acc.streamCompleted THEN "done" ELSE "stream",
                  ![c].fullContent = acc.fullContent,
                  ![c].toolCalls = acc.toolCalls,
                  ![c].sawError = acc.sawError,
                  ![c].reads = @ + 1]
             /\ activeRequestRef' =
                  IF acc.streamCompleted THEN Released(c) ELSE activeRequestRef
             /\ CommitCall(c, st, activeSessions)
  /\ UNCHANGED <<mounted, inst, selectedModel>>

\* reader.read() reports done: break, the completion update, the finally.
ReaderEnds ==
  /\ \E c \in 1..MaxCalls :
       /\ calls[c].pc = "stream"
       /\ ~calls[c].aborted
       /\ calls[c].reads > 0
       /\ calls' = [calls EXCEPT ![c].pc = "done"]
       /\ activeRequestRef' = Released(c)
       /\ CommitCall(c, Completed(c, chat.messages), activeSessions)
  /\ UNCHANGED <<mounted, inst, selectedModel>>

\* reader.read() rejects (the signal was aborted, or the network failed):
\* the finally, then the catch of sendMessage.
ReaderRejects ==
  /\ \E c \in 1..MaxCalls :
       /\ calls[c].pc = "stream"
       /\ calls' = [calls EXCEPT ![c].pc = "done"]
       /\ activeRequestRef' = Released(c)
       /\ CommitCall(c, Failed(c, FAILED_TO_GENERATE, "Error", FALSE), activeSessions)
  /\ UNCHANGED <<mounted, inst, selectedModel>>

\* clearChat
ClearChat ==
  /\ mounted
  /\ pageEvents < MaxPageEvents
  /\ pageEvents' = pageEvents + 1
  /\ LET st == [chat EXCEPT !.messages = <<>>, !.isLoading = FALSE, !.error = NoError]
         single1 == clearSingleChat(persistedSingleChats, selectedModel)
         sessions1 == IF chat.sessionId # NoSession
                      THEN resetSession(activeSessions, chat.sessionId, now)
                      ELSE activeSessions
     IN Commit(st, sessions1, counter, single1, selectedModel, TRUE, TRUE)
  /\ UNCHANGED <<mounted, inst, selectedModel, calls, activeRequestRef>>

\* What no step of the hook changes.
HookFrame ==
  UNCHANGED <<now, decVars, config, sessBound, lastResult, eventHandlers, destroyed,
              persistedComparisonChats, cmpVars>>

ChatFrame == HookFrame /\ UNCHANGED lastSend

ChatNext ==
  \/ Mount /\ UNCHANGED pageEvents /\ ChatFrame
  \/ Unmount /\ ChatFrame
  \/ ChangeModel /\ ChatFrame
  \/ SendMessage /\ UNCHANGED pageEvents /\ HookFrame
  \/ CountMessageSettles /\ UNCHANGED pageEvents /\ ChatFrame
  \/ SendSingleChatSettles /\ UNCHANGED pageEvents /\ ChatFrame
  \/ ReaderDelivers /\ UNCHANGED pageEvents /\ ChatFrame
  \/ ReaderEnds /\ UNCHANGED pageEvents /\ ChatFrame
  \/ ReaderRejects /\ UNCHANGED pageEvents /\ ChatFrame
  \/ ClearChat /\ ChatFrame
  \/ Tick /\ UNCHANGED <<sessVars, decVars, persistVars, chatVars, pageEvents, lastSend, cmpVars>>

\* ---------------------------------------------- useComparisonChat: state

NoComparison == "none"

EmptySide == [messages |-> <<>>, isLoading |-> FALSE, error |-> NoError]

\* The initial value of useState<ComparisonChatState>.
InitialComparisonState(l, r) ==
  [leftChat |-> EmptySide, rightChat |-> EmptySide, leftModel |-> l, rightModel |-> r,
   sessionId |-> NoSession, lastModelHash |-> <<>>, comparisonId |-> NoComparison,
   rateLimited |-> FALSE]

\* The locals of one stream task (leftStreamPromise / rightStreamPromise).
IdleTask ==
  [pc |-> "none", content |-> <<>>, toolCalls |-> <<>>, reads |-> 0,
   aborted |-> FALSE, sawError |-> FALSE, rejected |-> FALSE]

IdleCmpCall ==
  [pc |-> "idle", inst |-> 0, sessionId |-> NoSession, leftId |-> 0, rightId |-> 0,
   quota |-> "none", init |-> "none", left |-> IdleTask, right |-> IdleTask,
   speedTestEnabled |-> FALSE, metrics |-> "none"]

\* A catch of the left task that finalizes the right assistant message too.
MutLeftFailed(st, id) ==
  [st EXCEPT !.leftChat.messages = WithError(@, id, FAILED_TO_GENERATE),
             !.leftChat.isLoading = FALSE,
             !.leftChat.error = "Left model failed to respond",
             !.rightChat.messages = WithError(@, id + 1, FAILED_TO_GENERATE)]

\* The state updates of the left stream task.
LeftWithContent(st, id, parsed, toolCalls) ==
  [st EXCEPT !.leftChat.messages = WithContent(@, id, parsed, toolCalls)]

LeftWithToolCalls(st, id, toolCalls) ==
  [st EXCEPT !.leftChat.messages = WithToolCalls(@, id, toolCalls)]

LeftCompleted(st, id) ==
  [st EXCEPT !.leftChat.messages = WithStreamingDone(@, id),
             !.leftChat.isLoading = FALSE]

LeftFailed(st, id) ==
  [st EXCEPT !.leftChat.messages = WithError(@, id, FAILED_TO_GENERATE),
             !.leftChat.isLoading = FALSE,
             !.leftChat.error = "Left model failed to respond"]

\* The state updates of the right stream task.
RightWithContent(st, id, parsed, toolCalls) ==
  [st EXCEPT !.rightChat.messages = WithContent(@, id, parsed, toolCalls)]

RightWithToolCalls(st, id, toolCalls) ==
  [st EXCEPT !.rightChat.messages = WithToolCalls(@, id, toolCalls)]

RightCompleted(st, id) ==
  [st EXCEPT !.rightChat.messages = WithStreamingDone(@, id),
             !.rightChat.isLoading = FALSE]

RightFailed(st, id) ==
  [st EXCEPT !.rightChat.messages = WithError(@, id, FAILED_TO_GENERATE),
             !.rightChat.isLoading = FALSE,
             !.rightChat.error = "Right model failed to respond"]

\* The update of the quota failure and of the catch of sendMessage: both
\* assistant messages are finalized with the error.
BothFailed(st, leftId, rightId, err, stateError, limited) ==
  [st EXCEPT !.leftChat.messages = WithError(@, leftId, err),
             !.leftChat.isLoading = FALSE, !.leftChat.error = stateError,
             !.rightChat.messages = WithError(@, rightId, err),
             !.rightChat.isLoading = FALSE, !.rightChat.error = stateError,
             !.rateLimited = @ \/ limited]

RECURSIVE DispatchSide(_, _, _, _)
\* The for loop of a stream task over the framed lines of one chunk.  acc
\* holds the locals (content, toolCalls, streamCompleted), the state the
\* updates are applied to, and (history) whether an error event was seen.
DispatchSide(ls, side, id, acc) ==
  IF ls = <<>> THEN acc
  ELSE LET p == Head(ls) IN
    CASE p.type \in {"sentinel", "done"} -> [acc EXCEPT !.streamCompleted = TRUE]
      [] p.type = "content" ->
           LET full == acc.content \o p.value
               parsed == parseThinkingContent(full)
           IN DispatchSide(Tail(ls), side, id,
                [acc EXCEPT !.content = full,
                   !.st = IF side = "left"
                          THEN LeftWithContent(@, id, parsed, acc.toolCalls)
                          ELSE RightWithContent(@, id, parsed, acc.toolCalls)])
      [] p.type = "tool_calls" ->
           DispatchSide(Tail(ls), side, id,
             [acc EXCEPT !.toolCalls = p.value,
                !.st = IF side = "left" THEN LeftWithToolCalls(@, id, p.value)
                       ELSE RightWithToolCalls(@, id, p.value)])
      [] p.type = "error" ->
           DispatchSide(Tail(ls), side, id, [acc EXCEPT !.sawError = TRUE])
      [] OTHER -> DispatchSide(Tail(ls), side, id, acc)

\* -------------------------------------------- useComparisonChat: effects

CmpWorld(st, sessions, cnt, comparison) ==
  [st |-> st, next |-> st, any |-> FALSE, deps |-> FALSE, msgs |-> FALSE,
   sessions |-> sessions, counter |-> cnt, comparison |-> comparison]

\* The effect 'Handle model changes and session management'.
CmpModelChangeEffect(w, l, r, t) ==
  IF l = NoModel \/ r = NoModel THEN w
  ELSE IF w.st.sessionId = NoSession
  THEN LET sid == generateSessionId(t, w.counter)
           hash == generateComparisonModelHash(l, r)
           persistedChat == getComparisonChat(w.comparison, l, r)
       IN [w EXCEPT !.sessions = createSession(@, sid, hash, NoConversation, t),
                    !.counter = @ + 1,
                    !.next = [@ EXCEPT
                       !.sessionId = sid, !.lastModelHash = hash,
                       !.leftModel = l, !.rightModel = r,
                       !.comparisonId = NoComparison,
                       !.leftChat = [EmptySide EXCEPT
                                       !.messages = persistedChat.leftMessages],
                       !.rightChat = [EmptySide EXCEPT
                                        !.messages = persistedChat.rightMessages]],
                    !.any = TRUE, !.deps = TRUE, !.msgs = TRUE]
  ELSE LET res == handleComparisonModelChange(config, w.sessions, w.counter,
                                              w.st.sessionId, l, r, t)
           n1 == IF res.onReset
                 THEN [w.next EXCEPT !.leftChat = EmptySide, !.rightChat = EmptySide,
                                     !.comparisonId = NoComparison]
                 ELSE w.next
           moved == res.sessionId # w.st.sessionId
           n2 == IF moved
                 THEN [n1 EXCEPT !.sessionId = res.sessionId,
                                 !.comparisonId = NoComparison]
                 ELSE n1
           rehash == /\ res.sessionId \in DOMAIN res.sessions
                     /\ res.sessions[res.sessionId].modelHash # w.st.lastModelHash
           n3 == IF rehash
                 THEN [n2 EXCEPT
                         !.lastModelHash = res.sessions[res.sessionId].modelHash,
                         !.leftModel = l, !.rightModel = r]
                 ELSE n2
       IN [w EXCEPT !.sessions = res.sessions, !.counter = res.counter, !.next = n3,
                    !.any = @ \/ res.onReset \/ moved \/ rehash,
                    !.deps = @ \/ moved \/ rehash,
                    !.msgs = @ \/ res.onReset]

\* The effect 'Save messages whenever they change'.
CmpSaveEffect(w, l, r, t) ==
  IF /\ l # NoModel
     /\ r # NoModel
     /\ (w.st.leftChat.messages # <<>> \/ w.st.rightChat.messages # <<>>)
  THEN [w EXCEPT !.comparison =
          saveComparisonChat(@, l, r, w.st.leftChat.messages,
                             w.st.rightChat.messages, t)]
  ELSE w

\* One pass of the effects of a render, in the order of their declaration.
CmpEffectsPass(w, l, r, t, runModel, runSave) ==
  CHOOSE w2 \in
    { IF runSave THEN CmpSaveEffect(w1, l, r, t) ELSE w1 :
        w1 \in { IF runModel THEN CmpModelChangeEffect(w0, l, r, t) ELSE w0 :
                   w0 \in {[w EXCEPT !.next = w.st, !.any = FALSE, !.deps = FALSE,
                                     !.msgs = FALSE]} } } : TRUE

RECURSIVE CmpFlush(_, _, _, _, _, _)
\* The effects of a commit and of the commits their updates cause.
CmpFlush(w, l, r, t, runModel, runSave) ==
  CHOOSE x \in
    { IF ~w2.any THEN w2
      ELSE CmpFlush([w2 EXCEPT !.st = w2.next], l, r, t, w2.deps, w2.msgs) :
        w2 \in {CmpEffectsPass(w, l, r, t, runModel, runSave)} } : TRUE

\* The singletons and the state after a commit and its effects.
CmpCommit(st, sessions, cnt, comparison, l, r, runModel, runSave) ==
  \E w \in {CmpFlush(CmpWorld(st, sessions, cnt, comparison), l, r, now,
                     runModel, runSave)} :
    /\ cmp' = w.st
    /\ activeSessions' = w.sessions
    /\ counter' = w.counter
    /\ persistedComparisonChats' = w.comparison

\* -------------------------------------------- useComparisonChat: actions

\* undefined
NoValue == "undefined"

MaxRunCalls == 2

\* The fields of ComparisonChatState that describe the comparison run.
InitialRun ==
  [comparisonId |-> NoValue, liveMetrics |-> NoValue, speedTestResults |-> NoValue,
   speedTestError |-> NoValue]

\* JavaScript's 0 of `let lastMetricsUpdate = 0` (no clock reading is 0).
NoUpdate == -1

\* Events of one type that a metrics stream delivers.
MaxMetricsEvents == 2

\* live, results: (history) the live_metrics and speed_test_results events
\* the call's metrics stream has delivered so far.
IdleRunCall ==
  [pc |-> "idle", speedTestEnabled |-> FALSE, modelStreams |-> "none",
   metrics |-> "none", lastMetricsUpdate |-> NoUpdate, live |-> 0, results |-> 0]

\* chat-persistence.ts is evaluated when a hook imports it: the constructor of
\* the singleton registers the cache's listener before any component renders.
UnloadIdle ==
  /\ unloadListeners = <<"cache">>
  /\ unloaded = FALSE

RunIdle ==
  /\ UnloadIdle
  /\ run = InitialRun
  /\ runCalls = [c \in 1..MaxRunCalls |-> IdleRunCall]
  /\ runCleared = FALSE

CmpIdle ==
  /\ RunIdle
  /\ cmpMounted = FALSE
  /\ cmpInst = 0
  /\ selectedLeft = NoModel
  /\ selectedRight = NoModel
  /\ cmp = InitialComparisonState(NoModel, NoModel)
  /\ cmpCalls = [c \in 1..MaxCmpCalls |-> IdleCmpCall]
  /\ activeRequestsRef = [left |-> 0, right |-> 0]

\* The page before the component that calls useComparisonChat is mounted.
CmpInit ==
  /\ RunIdle
  /\ cmpMounted = FALSE
  /\ cmpInst = 0
  /\ selectedLeft \in SelectableModels
  /\ selectedRight \in SelectableModels
  /\ cmp = InitialComparisonState(NoModel, NoModel)
  /\ cmpCalls = [c \in 1..MaxCmpCalls |-> IdleCmpCall]
  /\ activeRequestsRef = [left |-> 0, right |-> 0]
  /\ pageEvents = 0

CmpLive(c) == cmpMounted /\ cmpCalls[c].inst = cmpInst

\* The commit of an update of call c and its effects (the message lists are
\* dependencies of the save effect only).
CmpCommitCall(c, st, sessions) ==
  CmpCommit(st, sessions, counter, persistedComparisonChats,
            selectedLeft, selectedRight, FALSE, CmpLive(c))

CmpMount ==
  /\ ~cmpMounted
  /\ cmpInst < MaxMounts
  /\ cmpMounted' = TRUE
  /\ cmpInst' = cmpInst + 1
  /\ activeRequestsRef' = [left |-> 0, right |-> 0]
  /\ CmpCommit(InitialComparisonState(selectedLeft, selectedRight), activeSessions,
               counter, persistedComparisonChats, selectedLeft, selectedRight,
               TRUE, TRUE)
  /\ UNCHANGED <<selectedLeft, selectedRight, cmpCalls, pageEvents>>

\* The cleanup on unmount aborts the controllers of activeRequestsRef.current.
CmpUnmount ==
  /\ cmpMounted
  /\ pageEvents < MaxPageEvents
  /\ pageEvents' = pageEvents + 1
  /\ cmpMounted' = FALSE
  /\ cmp' = InitialComparisonState(NoModel, NoModel)
  /\ cmpCalls' = [c \in 1..MaxCmpCalls |->
       [cmpCalls[c] EXCEPT
          !.left.aborted = @ \/ activeRequestsRef.left = c,
          !.right.aborted = @ \/ activeRequestsRef.right = c]]
  /\ activeRequestsRef' = [left |-> 0, right |-> 0]
  /\ UNCHANGED <<cmpInst, selectedLeft, selectedRight, activeSessions, counter,
                 persistedComparisonChats>>

\* One of the model props changes while the hook is mounted.
CmpChangeModel ==
  /\ cmpMounted
  /\ pageEvents < MaxPageEvents
  /\ pageEvents' = pageEvents + 1
  /\ \E l \in SelectableModels, r \in SelectableModels :
       /\ (l = selectedLeft) # (r = selectedRight)
       /\ selectedLeft' = l
       /\ selectedRight' = r
       /\ CmpCommit(cmp, activeSessions, counter, persistedComparisonChats,
                    l, r, TRUE, TRUE)
  /\ UNCHANGED <<cmpMounted, cmpInst, cmpCalls, activeRequestsRef>>

\* The call after Promise.all has resolved with shouldProceed: the streams
\* are started, and with them the metrics stream if speedTestEnabled.
Started(call) ==
  [call EXCEPT !.pc = "streams", !.left.pc = "fetch", !.right.pc = "fetch",
               !.metrics = IF call.speedTestEnabled THEN "open" ELSE "none"]

\* if (!content.trim() || !leftModel || !rightModel || !state.sessionId) return
CmpCanSend(content, l, r, sessionId) ==
  trim(content) # <<>> /\ l # NoModel /\ r # NoModel /\ sessionId # NoSession

\* sendMessage up to its first await that leaves the handler: the early
\* return of the validation, or the optimistic update.
CmpSendMessage ==
  /\ cmpMounted
  /\ \E content \in SendContents, hasValidApiKey \in BOOLEAN,
        speedTestEnabled \in BOOLEAN :
       IF ~CmpCanSend(content, selectedLeft, selectedRight, cmp.sessionId)
       THEN UNCHANGED <<cmp, cmpCalls, activeSessions, counter,
                        persistedComparisonChats>>
       ELSE \E c \in 1..MaxCmpCalls :
         /\ cmpCalls[c].pc = "idle"
         /\ \A d \in 1..(c - 1) : cmpCalls[d].pc # "idle"
         /\ LET origin == <<selectedLeft.id, selectedRight.id>>
                userMessage == Message(now, "user", trim(content), FALSE, origin)
                leftAssistantMessage ==
                  Message(now + 1, "assistant", <<>>, TRUE, origin)
                rightAssistantMessage ==
                  Message(now + 2, "assistant", <<>>, TRUE, origin)
                st == [cmp EXCEPT
                         !.leftChat.messages = @ \o <<userMessage, leftAssistantMessage>>,
                         !.leftChat.isLoading = TRUE, !.leftChat.error = NoError,
                         !.rightChat.messages = @ \o <<userMessage, rightAssistantMessage>>,
                         !.rightChat.isLoading = TRUE, !.rightChat.error = NoError,
                         !.rateLimited = FALSE]
            IN /\ cmpCalls' = [cmpCalls EXCEPT ![c] =
                    [IdleCmpCall EXCEPT
                       !.pc = "setup", !.inst = cmpInst, !.sessionId = cmp.sessionId,
                       !.leftId = now + 1, !.rightId = now + 2,
                       !.quota = IF hasValidApiKey THEN "ok" ELSE "pending",
                       !.init = "pending",
                       !.speedTestEnabled = speedTestEnabled]]
               /\ CmpCommit(st, updateActivity(activeSessions, cmp.sessionId, now),
                            counter, persistedComparisonChats,
                            selectedLeft, selectedRight, FALSE, TRUE)
  /\ UNCHANGED <<cmpMounted, cmpInst, selectedLeft, selectedRight, activeRequestsRef,
                 pageEvents>>

\* activeRequestsRef.current = {left, right} of call c, on the ref of the
\* call's instance.
Registered(c) == IF CmpLive(c) THEN [left |-> c, right |-> c] ELSE activeRequestsRef

\* backgroundTasks: apiClient.countMessage() settles; when initializeComparison
\* has resolved before, Promise.all resolves and sendMessage goes on.
CmpCountMessageSettles ==
  /\ \E c \in 1..MaxCmpCalls, outcome \in {"ok", "rateLimit", "failure"} :
       LET call == cmpCalls[c]
           joined == call.pc = "setup" /\ call.init = "ok"
       IN
       /\ call.quota = "pending"
       /\ IF outcome = "rateLimit"
          THEN /\ cmpCalls' = [cmpCalls EXCEPT
                    ![c] = [call EXCEPT !.quota = "limited",
                                        !.pc = IF joined THEN "done" ELSE @]]
               /\ CmpCommitCall(c,
                    IF CmpLive(c)
                    THEN BothFailed(cmp, call.leftId, call.rightId, DAILY_LIMIT,
                                    NoError, TRUE)
                    ELSE cmp, activeSessions)
               /\ UNCHANGED activeRequestsRef
          ELSE /\ cmpCalls' = [cmpCalls EXCEPT
                    ![c] = IF joined THEN Started([call EXCEPT !.quota = "ok"])
                           ELSE [call EXCEPT !.quota = "ok"]]
               /\ activeRequestsRef' = IF joined THEN Registered(c)
                                       ELSE activeRequestsRef
               /\ CmpCommitCall(c,
                    IF joined /\ CmpLive(c) THEN [cmp EXCEPT !.comparisonId = "cmp"]
                    ELSE cmp,
                    updateActivity(activeSessions, call.sessionId, now))
  /\ UNCHANGED <<cmpMounted, cmpInst, selectedLeft, selectedRight, pageEvents>>

\* apiClient.initializeComparison settles.  A rejection rejects Promise.all
\* at once: the catch of sendMessage finalizes both messages.
CmpInitializeSettles ==
  /\ \E c \in 1..MaxCmpCalls, outcome \in {"ok", "rateLimit", "failure"} :
       LET call == cmpCalls[c] IN
       /\ call.pc = "setup"
       /\ call.init = "pending"
       /\ CASE outcome = "ok" ->
                 /\ cmpCalls' = [cmpCalls EXCEPT
                      ![c] = IF call.quota = "ok" THEN Started([call EXCEPT !.init = "ok"])
                             ELSE IF call.quota = "limited"
                             THEN [call EXCEPT !.init = "ok", !.pc = "done"]
                             ELSE [call EXCEPT !.init = "ok"]]
                 /\ activeRequestsRef' = IF call.quota = "ok" THEN Registered(c)
                                         ELSE activeRequestsRef
                 /\ CmpCommitCall(c,
                      IF call.quota = "ok" /\ CmpLive(c)
                      THEN [cmp EXCEPT !.comparisonId = "cmp"] ELSE cmp,
                      activeSessions)
            [] outcome = "rateLimit" ->
                 /\ cmpCalls' = [cmpCalls EXCEPT
                      ![c] = [call EXCEPT !.init = "failed", !.pc = "done"]]
                 /\ CmpCommitCall(c,
                      IF CmpLive(c)
                      THEN BothFailed(cmp, call.leftId, call.rightId, DAILY_LIMIT,
                                      NoError, TRUE)
                      ELSE cmp, activeSessions)
                 /\ UNCHANGED activeRequestsRef
            [] outcome = "failure" ->
                 /\ cmpCalls' = [cmpCalls EXCEPT
                      ![c] = [call EXCEPT !.init = "failed", !.pc = "done"]]
                 /\ CmpCommitCall(c,
                      IF CmpLive(c)
                      THEN BothFailed(cmp, call.leftId, call.rightId,
                                      FAILED_TO_GENERATE,
                                      "Failed to send message. Please try again.",
                                      FALSE)
                      ELSE cmp, activeSessions)
                 /\ UNCHANGED activeRequestsRef
  /\ UNCHANGED <<cmpMounted, cmpInst, selectedLeft, selectedRight, pageEvents>>

Sides == {"left", "right"}

TaskOf(call, side) == IF side = "left" THEN call.left ELSE call.right

AsstId(call, side) == IF side = "left" THEN call.leftId ELSE call.rightId

WithTask(call, side, task) ==
  IF side = "left" THEN [call EXCEPT !.left = task] ELSE [call EXCEPT !.right = task]

\* The state after the catch of the task of this side of call c.
SideFailed(c, side) ==
  IF ~CmpLive(c) THEN cmp
  ELSE IF side = "left" THEN LeftFailed(cmp, cmpCalls[c].leftId)
  ELSE RightFailed(cmp, cmpCalls[c].rightId)

\* The state after the completion update of the task, applied to st.
SideCompleted(c, side, st) ==
  IF ~CmpLive(c) THEN cmp
  ELSE IF side = "left" THEN LeftCompleted(st, cmpCalls[c].leftId)
  ELSE RightCompleted(st, cmpCalls[c].rightId)

\* finally: activeRequestsRef.current.<side> = undefined.
SideReleased(c, side) ==
  IF ~CmpLive(c) THEN activeRequestsRef
  ELSE IF side = "left" THEN [activeRequestsRef EXCEPT !.left = 0]
  ELSE [activeRequestsRef EXCEPT !.right = 0]

TaskFrame == UNCHANGED <<cmpMounted, cmpInst, selectedLeft, selectedRight, pageEvents>>

\* apiClient.sendSingleChat of one side settles: the stream, or a failure
\* (the only outcome once the signal is aborted), which the catch of the task
\* handles.
TaskFetchSettles(side) ==
  /\ \E c \in 1..MaxCmpCalls, outcome \in {"ok", "failure"} :
       LET call == cmpCalls[c]
           task == TaskOf(call, side)
       IN
       /\ call.pc = "streams"
       /\ task.pc = "fetch"
       /\ task.aborted => outcome = "failure"
       /\ IF outcome = "ok"
          THEN /\ cmpCalls' = [cmpCalls EXCEPT
                    ![c] = WithTask(call, side, [task EXCEPT !.pc = "stream"])]
               /\ UNCHANGED <<cmp, activeSessions, counter, persistedComparisonChats>>
          ELSE /\ cmpCalls' = [cmpCalls EXCEPT
                    ![c] = WithTask(call, side,
                             [task EXCEPT !.pc = "settled", !.rejected = TRUE])]
               /\ CmpCommitCall(c, SideFailed(c, side), activeSessions)
  /\ UNCHANGED activeRequestsRef
  /\ TaskFrame

\* reader.read() of one side delivers a chunk.
TaskDelivers(side) ==
  /\ \E c \in 1..MaxCmpCalls, chunk \in ChatChunks :
       LET call == cmpCalls[c]
           task == TaskOf(call, side)
       IN
       /\ call.pc = "streams"
       /\ task.pc = "stream"
       /\ ~task.aborted
       /\ task.reads < MaxReads
       /\ \E acc \in {DispatchSide(FrameChunk(chunk), side, AsstId(call, side),
                        [content |-> task.content, toolCalls |-> task.toolCalls,
                         streamCompleted |-> FALSE, st |-> cmp,
                         sawError |-> task.sawError])} :
            /\ cmpCalls' = [cmpCalls EXCEPT
                 ![c] = WithTask(call, side,
                          [task EXCEPT
                             !.pc = IF acc.streamCompleted THEN "settled" ELSE "stream",
                             !.content = acc.content, !.toolCalls = acc.toolCalls,
                             !.sawError = acc.sawError, !.reads = @ + 1])]
            /\ activeRequestsRef' = IF acc.streamCompleted THEN SideReleased(c, side)
                                    ELSE activeRequestsRef
            /\ CmpCommitCall(c,
                 IF acc.streamCompleted THEN SideCompleted(c, side, acc.st)
                 ELSE IF CmpLive(c) THEN acc.st ELSE cmp,
                 activeSessions)
  /\ TaskFrame

\* reader.read() of one side reports done.
TaskEnds(side) ==
  /\ \E c \in 1..MaxCmpCalls :
       LET call == cmpCalls[c]
           task == TaskOf(call, side)
       IN
       /\ call.pc = "streams"
       /\ task.pc = "stream"
       /\ ~task.aborted
       /\ task.reads > 0
       /\ cmpCalls' = [cmpCalls EXCEPT
            ![c] = WithTask(call, side, [task EXCEPT !.pc = "settled"])]
       /\ activeRequestsRef' = SideReleased(c, side)
       /\ CmpCommitCall(c, SideCompleted(c, side, cmp), activeSessions)
  /\ TaskFrame

\* reader.read() of one side rejects: the finally, then the catch of the task.
TaskRejects(side) ==
  /\ \E c \in 1..MaxCmpCalls :
       LET call == cmpCalls[c]
           task == TaskOf(call, side)
       IN
       /\ call.pc = "streams"
       /\ task.pc = "stream"
       /\ cmpCalls' = [cmpCalls EXCEPT
            ![c] = WithTask(call, side,
                     [task EXCEPT !.pc = "settled", !.rejected = TRUE])]
       /\ activeRequestsRef' = SideReleased(c, side)
       /\ CmpCommitCall(c, SideFailed(c, side), activeSessions)
  /\ TaskFrame

\* A step of the stream task of one side.
TaskStep(side) ==
  \/ TaskFetchSettles(side)
  \/ TaskDelivers(side)
  \/ TaskEnds(side)
  \/ TaskRejects(side)

\* The metrics stream task settles: its stream has ended or failed.  (What
\* its events write is state of the comparison run, not of the messages.)
CmpMetricsSettles ==
  /\ \E c \in 1..MaxCmpCalls :
       /\ cmpCalls[c].metrics = "open"
       /\ cmpCalls' = [cmpCalls EXCEPT ![c].metrics = "closed"]
  /\ UNCHANGED <<cmp, activeSessions, counter, persistedComparisonChats,
                 activeRequestsRef>>
  /\ TaskFrame

\* Promise.allSettled resolves: activeRequestsRef.current = {}.
CmpJoin ==
  /\ \E c \in 1..MaxCmpCalls :
       /\ cmpCalls[c].pc = "streams"
       /\ cmpCalls[c].left.pc = "settled"
       /\ cmpCalls[c].right.pc = "settled"
       /\ cmpCalls[c].metrics # "open"
       /\ cmpCalls' = [cmpCalls EXCEPT ![c].pc = "done"]
       /\ activeRequestsRef' = IF CmpLive(c) THEN [left |-> 0, right |-> 0]
                               ELSE activeRequestsRef
  /\ UNCHANGED <<cmp, activeSessions, counter, persistedComparisonChats>>
  /\ TaskFrame

\* clearChat
CmpClearChat ==
  /\ cmpMounted
  /\ pageEvents < MaxPageEvents
  /\ pageEvents' = pageEvents + 1
  /\ CmpCommit([cmp EXCEPT !.leftChat = EmptySide, !.rightChat = EmptySide,
                           !.comparisonId = NoComparison],
               IF cmp.sessionId # NoSession
               THEN resetSession(activeSessions, cmp.sessionId, now)
               ELSE activeSessions,
               counter,
               clearComparisonChat(persistedComparisonChats, selectedLeft, selectedRight),
               selectedLeft, selectedRight, FALSE, TRUE)
  /\ UNCHANGED <<cmpMounted, cmpInst, selectedLeft, selectedRight, cmpCalls,
                 activeRequestsRef>>

CmpFrame ==
  UNCHANGED <<now, decVars, config, sessBound, lastResult, eventHandlers, destroyed,
              persistedSingleChats, chatVars, lastSend, run, runCalls, runCleared,
              unloadListeners, unloaded>>

CmpNext ==
  \/ CmpMount /\ CmpFrame
  \/ CmpUnmount /\ CmpFrame
  \/ CmpChangeModel /\ CmpFrame
  \/ CmpSendMessage /\ CmpFrame
  \/ CmpCountMessageSettles /\ CmpFrame
  \/ CmpInitializeSettles /\ CmpFrame
  \/ TaskStep("left") /\ CmpFrame
  \/ TaskStep("right") /\ CmpFrame
  \/ CmpMetricsSettles /\ CmpFrame
  \/ CmpJoin /\ CmpFrame
  \/ CmpClearChat /\ CmpFrame
  \/ Tick /\ UNCHANGED <<sessVars, decVars, persistVars, chatVars, pageEvents, lastSend, cmpVars>>

\* ------------------------------------ the metrics stream of a comparison
\* useComparisonChat from its mount to the join of a send, with the third
\* task of sendMessage: the metrics stream, whose updates write the run
\* fields of the state the messages live in.

\* A catch of the metrics task written like the outer catch of sendMessage:
\* it finalizes both assistant messages with an error.
MutMetricsFailed(c, err) ==
  IF CmpLive(c)
  THEN [cmp |-> BothFailed(cmp, cmpCalls[c].leftId, cmpCalls[c].rightId,
                           FAILED_TO_GENERATE, err, FALSE),
        run |-> [run EXCEPT !.speedTestError = err]]
  ELSE [cmp |-> cmp, run |-> run]

\* setState((prev) => ({...prev, speedTestError})) of call c: the state
\* afterwards, as its message part and its run part.
MetricsFailed(c, err) ==
  IF CmpLive(c)
  THEN [cmp |-> cmp, run |-> [run EXCEPT !.speedTestError = err]]
  ELSE [cmp |-> cmp, run |-> run]

\* What a step of the metrics task leaves alone besides the state.
MetricsTaskFrame ==
  /\ UNCHANGED <<activeSessions, counter, persistedComparisonChats, activeRequestsRef>>
  /\ TaskFrame

\* The metrics stream yields {type: 'error', error}.
MetricsErrorEvent ==
  /\ \E c \in 1..MaxCmpCalls :
       /\ cmpCalls[c].metrics = "open"
       /\ \E r \in {MetricsFailed(c, "error")} : cmp' = r.cmp /\ run' = r.run
  /\ UNCHANGED cmpCalls
  /\ MetricsTaskFrame

\* The metrics task settles: its stream ends, or streamMetrics or a read
\* rejects and the catch of the task runs.
MetricsSettles ==
  /\ \E c \in 1..MaxCmpCalls, outcome \in {"end", "failure"} :
       /\ cmpCalls[c].metrics = "open"
       /\ cmpCalls' = [cmpCalls EXCEPT ![c].metrics = "closed"]
       /\ IF outcome = "failure"
          THEN \E r \in {MetricsFailed(c, "Failed to load performance metrics")} :
                 cmp' = r.cmp /\ run' = r.run
          ELSE UNCHANGED <<cmp, run>>
  /\ MetricsTaskFrame

\* sendMessage: its optimistic update also sets speedTestError: undefined.
MetricsSendMessage ==
  /\ CmpSendMessage
  /\ run' = IF cmp' # cmp THEN [run EXCEPT !.speedTestError = NoValue] ELSE run

MetricsFrame ==
  UNCHANGED <<now, decVars, config, sessBound, lastResult, eventHandlers, destroyed,
              persistedSingleChats, chatVars, lastSend, runCalls, runCleared,
              unloadListeners, unloaded>>

MetricsNext ==
  \/ CmpMount /\ CmpFrame
  \/ MetricsSendMessage /\ MetricsFrame
  \/ CmpCountMessageSettles /\ CmpFrame
  \/ CmpInitializeSettles /\ CmpFrame
  \/ TaskStep("left") /\ CmpFrame
  \/ TaskStep("right") /\ CmpFrame
  \/ MetricsErrorEvent /\ MetricsFrame
  \/ MetricsSettles /\ MetricsFrame
  \/ CmpJoin /\ CmpFrame

DecIdle ==
  /\ dBody = <<>>
  /\ dChunks = <<>>
  /\ dOut = <<>>
  /\ dPc = "returned"
  /\ dLock = FALSE

DecInit ==
  /\ dBody \in BodiesUpTo(MaxLines)
  /\ dChunks \in Chunkings(dBody)
  /\ dOut = <<>>
  /\ dPc = "reading"
  /\ dLock = TRUE

\* reader.read() delivers a chunk; its lines are framed and dispatched.  A
\* return inside the loop ([DONE], a done event) runs the finally.
DecReadChunk ==
  /\ dPc = "reading"
  /\ dChunks # <<>>
  /\ LET r == StreamResponseChunk(Head(dChunks)) IN
       /\ dOut' = dOut \o r.out
       /\ dPc' = IF r.returned THEN "returned" ELSE "reading"
       /\ dLock' = IF r.returned THEN FALSE ELSE dLock
  /\ dChunks' = Tail(dChunks)
  /\ UNCHANGED dBody

\* reader.read() reports done: break, finally releases the lock.
DecEndOfBody ==
  /\ dPc = "reading"
  /\ dChunks = <<>>
  /\ dPc' = "returned"
  /\ dLock' = FALSE
  /\ UNCHANGED <<dBody, dChunks, dOut>>

\* A rejection without the finally: the lock stays with the reader.
MutDecReadRejects ==
  /\ dPc = "reading"
  /\ dPc' = "threw"
  /\ UNCHANGED <<dBody, dChunks, dOut, dLock>>

\* reader.read() rejects (the network failed, or the signal of the request
\* was aborted): the error leaves the generator through the finally.
DecReadRejects ==
  /\ dPc = "reading"
  /\ dPc' = "threw"
  /\ dLock' = FALSE
  /\ UNCHANGED <<dBody, dChunks, dOut>>

\* The consumer leaves its for await loop while the generator is suspended
\* at a yield: return() resumes the generator into the finally.
DecConsumerReturns ==
  /\ dPc = "reading"
  /\ dOut # <<>>
  /\ dPc' = "abandoned"
  /\ dLock' = FALSE
  /\ UNCHANGED <<dBody, dChunks, dOut>>

DecNext ==
  \/ DecReadChunk /\ UNCHANGED <<now, sessVars, persistVars, chatVars, pageEvents, lastSend, cmpVars>>
  \/ DecEndOfBody /\ UNCHANGED <<now, sessVars, persistVars, chatVars, pageEvents, lastSend, cmpVars>>
  \/ DecReadRejects /\ UNCHANGED <<now, sessVars, persistVars, chatVars, pageEvents, lastSend, cmpVars>>
  \/ DecConsumerReturns /\ UNCHANGED <<now, sessVars, persistVars, chatVars, pageEvents, lastSend, cmpVars>>

\* ------------------------------------------- the tracker specification
\* Every operation of the session state manager and of the tracker behind
\* it, with the events each one emits and the listeners that receive them.

MaxTrackerIds == 2
MaxHandlers == 2

\* A listener is known by what it does with an event: return, or throw.
HandlerKinds == {"ok", "throws"}

\* The models the session operations are called with: every selectable model
\* on the left (or alone), one of them on the right.
TrackerModels == SelectableModels
RightModels == {m \in SelectableModels : m.id = <<"a">>}
Conversations == {NoConversation, "conv"}

\* A call of one tracker method.
TrackerCall(m, id, hash, conv) == [m |-> m, id |-> id, hash |-> hash, conv |-> conv]

\* forEach without the try/catch: the first throwing listener ends the
\* loop and the exception leaves emitEvent.
MutEmitEvent(handlers, event) ==
  LET throwers == {i \in 1..Len(handlers) : handlers[i] = "throws"}
      last == IF throwers = {} THEN Len(handlers)
              ELSE CHOOSE i \in throwers : \A j \in throwers : i <= j
  IN [delivered |-> [i \in 1..last |-> <<i, event>>], escaped |-> throwers # {}]

\* SessionTracker.emitEvent: every listener is called in order inside its
\* own try/catch; a thrown error is logged and goes no further.
emitEvent(handlers, event) ==
  [delivered |-> [i \in 1..Len(handlers) |-> <<i, event>>], escaped |-> FALSE]

\* SessionTracker.activateSession
activateSession(sessions, sessionId, t) ==
  IF sessionId \in DOMAIN sessions /\ ~sessions[sessionId].isActive
  THEN [sessions EXCEPT ![sessionId].isActive = TRUE,
                        ![sessionId].lastActivity = t]
  ELSE sessions

\* SessionTracker.deactivateSession
deactivateSession(sessions, sessionId) ==
  IF sessionId \in DOMAIN sessions /\ sessions[sessionId].isActive
  THEN [sessions EXCEPT ![sessionId].isActive = FALSE]
  ELSE sessions

\* The session map after one tracker method has run (up to its emitEvent).
TrackerApply(sessions, c, t) ==
  CASE c.m = "createSession" -> createSession(sessions, c.id, c.hash, c.conv, t)
    [] c.m = "updateActivity" -> updateActivity(sessions, c.id, t)
    [] c.m = "updateModelHash" -> updateModelHash(sessions, c.id, c.hash, t)
    [] c.m = "activateSession" -> activateSession(sessions, c.id, t)
    [] c.m = "deactivateSession" -> deactivateSession(sessions, c.id)
    [] c.m = "resetSession" -> resetSession(sessions, c.id, t)
    [] c.m = "destroySession" -> destroySession(sessions, c.id)

NoEvent == [type |-> "none"]

\* The event a tracker method emits on the map it was called on.
TrackerEvent(sessions, c) ==
  LET present == c.id \in DOMAIN sessions
      ev(type) == [type |-> type, sessionId |-> c.id]
  IN CASE c.m = "createSession" -> ev("session_created")
       [] c.m = "updateActivity" -> NoEvent
       [] c.m = "updateModelHash" -> IF present THEN ev("model_changed") ELSE NoEvent
       [] c.m = "activateSession" ->
            IF present /\ ~sessions[c.id].isActive THEN ev("session_activated") ELSE NoEvent
       [] c.m = "deactivateSession" ->
            IF present /\ sessions[c.id].isActive THEN ev("session_deactivated") ELSE NoEvent
       [] c.m = "resetSession" -> IF present THEN ev("session_reset") ELSE NoEvent
       [] c.m = "destroySession" -> IF present THEN ev("session_destroyed") ELSE NoEvent

\* A manager operation is a sequence of tracker calls.  Each call changes
\* the map and then emits; an exception that leaves emitEvent leaves the
\* operation too, and the calls after it do not happen.
RECURSIVE RunCalls(_, _, _, _)
RunCalls(sessions, script, handlers, t) ==
  IF script = <<>>
  THEN [sessions |-> sessions, events |-> <<>>, delivered |-> <<>>, escaped |-> FALSE]
  ELSE LET c == Head(script)
           after == TrackerApply(sessions, c, t)
           event == TrackerEvent(sessions, c)
       IN IF event = NoEvent THEN RunCalls(after, Tail(script), handlers, t)
          ELSE LET e == emitEvent(handlers, event) IN
               IF e.escaped
               THEN [sessions |-> after, events |-> <<event>>,
                     delivered |-> e.delivered, escaped |-> TRUE]
               ELSE LET rest == RunCalls(after, Tail(script), handlers, t) IN
                    [sessions |-> rest.sessions, events |-> <<event>> \o rest.events,
                     delivered |-> e.delivered \o rest.delivered,
                     escaped |-> rest.escaped]

\* The keys of the map in iteration order, which is insertion order: ids
\* are inserted as they are generated, by time and then by counter.
Earlier(a, b) == a[2] < b[2] \/ (a[2] = b[2] /\ a[3] <= b[3])

RECURSIVE KeysInOrder(_)
KeysInOrder(ids) ==
  IF ids = {} THEN <<>>
  ELSE LET first == CHOOSE a \in ids : \A b \in ids : Earlier(a, b)
       IN <<first>> \o KeysInOrder(ids \ {first})

\* cleanupInactiveSessions with >= for >.
MutSessionsToDestroy(sessions, maxInactivityTime, t) ==
  {id \in DOMAIN sessions : t - sessions[id].lastActivity >= maxInactivityTime}

\* SessionTracker.cleanupInactiveSessions: the ids it collects.
sessionsToDestroy(sessions, maxInactivityTime, t) ==
  {id \in DOMAIN sessions : t - sessions[id].lastActivity > maxInactivityTime}

DestroyAll(ids) ==
  LET order == KeysInOrder(ids) IN
  [i \in 1..Len(order) |-> TrackerCall("destroySession", order[i], <<>>, NoConversation)]

\* A handler that resets in place whatever autoReset says.
MutModelChangeScript(cfg, currentSessionId, shouldReset, newHash, newId) ==
  IF shouldReset
  THEN <<TrackerCall("resetSession", currentSessionId, <<>>, NoConversation),
         TrackerCall("updateModelHash", currentSessionId, newHash, NoConversation)>>
  ELSE <<TrackerCall("updateActivity", currentSessionId, <<>>, NoConversation)>>

\* The tracker calls of handleSingleModelChange / handleComparisonModelChange,
\* given the decision, the new hash and the id a new session would get.
ModelChangeScript(cfg, currentSessionId, shouldReset, newHash, newId) ==
  IF shouldReset
  THEN IF cfg.autoReset
       THEN <<TrackerCall("resetSession", currentSessionId, <<>>, NoConversation),
              TrackerCall("updateModelHash", currentSessionId, newHash, NoConversation)>>
       ELSE <<TrackerCall("createSession", newId, newHash, NoConversation)>>
  ELSE <<TrackerCall("updateActivity", currentSessionId, <<>>, NoConversation)>>

\* The fingerprint of the model(s) bound to a session.
HashOfBound(b) ==
  IF Len(b) = 1 THEN generateSingleModelHash(b[1])
  ELSE generateComparisonModelHash(b[1], b[2])

Bind(bound, sessionId, models) ==
  [x \in DOMAIN bound \cup {sessionId} |-> IF x = sessionId THEN models ELSE bound[x]]

\* One manager operation: run its tracker calls against the listeners and
\* record what happened.
Perform(op, arg, script, extra) ==
  \E r \in {RunCalls(activeSessions, script, eventHandlers, now)} :
    /\ activeSessions' = r.sessions
    /\ destroyed' = destroyed \cup
         {r.events[i].sessionId : i \in {j \in DOMAIN r.events :
                                           r.events[j].type = "session_destroyed"}}
    /\ lastResult' = [op |-> op, arg |-> arg, script |-> script,
                      events |-> r.events, delivered |-> r.delivered,
                      escaped |-> r.escaped] @@ extra

\* SessionStateManager.createSingleSession(model, conversationId)
TrkCreateSingleSession ==
  /\ counter < MaxTrackerIds
  /\ \E model \in TrackerModels, conv \in Conversations :
       LET sid == generateSessionId(now, counter) IN
       /\ Perform("createSingleSession", sid,
                  <<TrackerCall("createSession", sid, generateSingleModelHash(model), conv)>>,
                  [sessionId |-> sid])
       /\ sessBound' = Bind(sessBound, sid, <<model>>)
  /\ counter' = counter + 1
  /\ UNCHANGED <<config, eventHandlers>>

\* SessionStateManager.createComparisonSession(leftModel, rightModel, conversationId)
TrkCreateComparisonSession ==
  /\ counter < MaxTrackerIds
  /\ \E leftModel \in TrackerModels, rightModel \in RightModels :
       LET sid == generateSessionId(now, counter) IN
       /\ Perform("createComparisonSession", sid,
                  <<TrackerCall("createSession", sid,
                      generateComparisonModelHash(leftModel, rightModel), NoConversation)>>,
                  [sessionId |-> sid])
       /\ sessBound' = Bind(sessBound, sid, <<leftModel, rightModel>>)
  /\ counter' = counter + 1
  /\ UNCHANGED <<config, eventHandlers>>

\* An id the generator never issues (its counter part starts at 1): what a
\* caller holds that never created a session.
NeverIssued == <<"session", 0, 0>>

\* The body the two model-change handlers share.
TrkModelChange(op, sid, models, shouldReset, newHash) ==
  LET newId == generateSessionId(now, counter)
      creates == shouldReset /\ ~config.autoReset
      script == ModelChangeScript(config, sid, shouldReset, newHash, newId)
      r == RunCalls(activeSessions, script, eventHandlers, now)
  IN /\ creates => counter < MaxTrackerIds
     /\ Perform(op, sid, script,
                [models |-> models, config |-> config, shouldReset |-> shouldReset,
                 sessionId |-> IF creates THEN newId ELSE sid,
                 onReset |-> IF shouldReset /\ config.autoReset /\ ~r.escaped
                             THEN 1 ELSE 0])
     /\ counter' = IF creates THEN counter + 1 ELSE counter
     /\ sessBound' = IF ~shouldReset THEN sessBound
                     ELSE Bind(sessBound, IF creates THEN newId ELSE sid, models)
     /\ UNCHANGED <<config, eventHandlers>>

\* SessionStateManager.handleSingleModelChange(currentSessionId, newModel, onReset)
TrkHandleSingleModelChange ==
  \E sid \in DOMAIN sessBound \cup {NeverIssued}, newModel \in TrackerModels :
    TrkModelChange("handleSingleModelChange", sid, <<newModel>>,
      shouldResetOnSingleModelChange(config, activeSessions, sid, newModel),
      generateSingleModelHash(newModel))

\* SessionStateManager.handleComparisonModelChange(currentSessionId, left, right, onReset)
TrkHandleComparisonModelChange ==
  \E sid \in DOMAIN sessBound, newLeft \in TrackerModels, newRight \in RightModels :
    TrkModelChange("handleComparisonModelChange", sid, <<newLeft, newRight>>,
      shouldResetOnComparisonModelChange(config, activeSessions, sid, newLeft, newRight),
      generateComparisonModelHash(newLeft, newRight))

\* An operation that is one tracker call on an id and creates nothing.
TrkOne(op, m) ==
  /\ \E sid \in DOMAIN sessBound :
       Perform(op, sid, <<TrackerCall(m, sid, <<>>, NoConversation)>>, <<>>)
  /\ UNCHANGED <<counter, config, sessBound, eventHandlers>>

\* SessionStateManager.updateSessionActivity
TrkUpdateActivity == TrkOne("updateSessionActivity", "updateActivity")

\* SessionStateManager.activateSession
TrkActivateSession == TrkOne("activateSession", "activateSession")

\* SessionStateManager.deactivateSession
TrkDeactivateSession == TrkOne("deactivateSession", "deactivateSession")

\* SessionStateManager.resetSession(sessionId, reason, onReset)
TrkResetSession == TrkOne("resetSession", "resetSession")

\* SessionStateManager.destroySession
TrkDestroySession == TrkOne("destroySession", "destroySession")

\* SessionTracker.cleanupInactiveSessions(maxInactivityTime)
TrkCleanupInactiveSessions ==
  /\ \E maxInactivityTime \in 0..MaxClock :
       Perform("cleanupInactiveSessions", maxInactivityTime,
               DestroyAll(sessionsToDestroy(activeSessions, maxInactivityTime, now)), <<>>)
  /\ UNCHANGED <<counter, config, sessBound, eventHandlers>>

\* SessionTracker.clearAllSessions
TrkClearAllSessions ==
  /\ activeSessions # EmptyMap
  /\ Perform("clearAllSessions", 0, DestroyAll(DOMAIN activeSessions), <<>>)
  /\ UNCHANGED <<counter, config, sessBound, eventHandlers>>

\* SessionTracker.addEventListener
TrkAddEventListener ==
  /\ Len(eventHandlers) < MaxHandlers
  /\ \E h \in HandlerKinds : eventHandlers' = Append(eventHandlers, h)
  /\ lastResult' = [op |-> "addEventListener"]
  /\ UNCHANGED <<activeSessions, counter, config, sessBound, destroyed>>

\* SessionTracker.removeEventListener: splice(index, 1)
TrkRemoveEventListener ==
  /\ \E k \in DOMAIN eventHandlers :
       eventHandlers' = [i \in 1..(Len(eventHandlers) - 1) |->
                           IF i < k THEN eventHandlers[i] ELSE eventHandlers[i + 1]]
  /\ lastResult' = [op |-> "removeEventListener"]
  /\ UNCHANGED <<activeSessions, counter, config, sessBound, destroyed>>

TrkFrame == UNCHANGED <<now, decVars, persistVars, chatVars, pageEvents, lastSend, cmpVars>>

TrkNext ==
  \/ TrkCreateSingleSession /\ TrkFrame
  \/ TrkCreateComparisonSession /\ TrkFrame
  \/ TrkHandleSingleModelChange /\ TrkFrame
  \/ TrkHandleComparisonModelChange /\ TrkFrame
  \/ TrkUpdateActivity /\ TrkFrame
  \/ TrkActivateSession /\ TrkFrame
  \/ TrkDeactivateSession /\ TrkFrame
  \/ TrkResetSession /\ TrkFrame
  \/ TrkDestroySession /\ TrkFrame
  \/ TrkCleanupInactiveSessions /\ TrkFrame
  \/ TrkClearAllSessions /\ TrkFrame
  \/ UpdateConfig /\ TrkFrame
  \/ Tick /\ UNCHANGED <<sessVars, decVars, persistVars, chatVars, pageEvents, lastSend, cmpVars>>

\* The operations that emit, with listeners coming and going.
ListenerNext ==
  \/ TrkCreateSingleSession /\ TrkFrame
  \/ TrkHandleSingleModelChange /\ TrkFrame
  \/ TrkDeactivateSession /\ TrkFrame
  \/ TrkActivateSession /\ TrkFrame
  \/ TrkCleanupInactiveSessions /\ TrkFrame
  \/ TrkAddEventListener /\ TrkFrame
  \/ TrkRemoveEventListener /\ TrkFrame
  \/ Tick /\ UNCHANGED <<sessVars, decVars, persistVars, chatVars, pageEvents, lastSend, cmpVars>>

\* --------------------------------------- the comparison-run specification
\* useComparisonChat mounted with two models and a session, seen through
\* the fields of its state that describe the comparison run.  The messages
\* are left out: they are the comparison specification's.

METRICS_THROTTLE == 50

\* A state in which sendMessage passes its validation and no quota or
\* comparison-init call has been issued for it yet.
\* The optimistic update resets speedTestError and nothing else of the run.
RunSendMessage ==
  /\ \E c \in 1..MaxRunCalls, speedTestEnabled \in BOOLEAN :
       /\ runCalls[c].pc = "idle"
       /\ \A d \in 1..(c - 1) : runCalls[d].pc # "idle"
       /\ runCalls' = [runCalls EXCEPT ![c] =
            [IdleRunCall EXCEPT !.pc = "setup", !.speedTestEnabled = speedTestEnabled]]
  /\ run' = [run EXCEPT !.speedTestError = NoValue]
  /\ runCleared' = FALSE
  /\ UNCHANGED pageEvents

\* Promise.all of the quota check and initializeComparison settles: with the
\* comparison id (the state takes it, the model streams start and, if
\* speedTestEnabled, the metrics stream), with the hard quota failure
\* (return), or with a rejection (catch).  The id is the server's, a new one
\* for each call.
RunSetupSettles ==
  /\ \E c \in 1..MaxRunCalls, outcome \in {"ok", "limited", "failed"} :
       /\ runCalls[c].pc = "setup"
       /\ IF outcome = "ok"
          THEN /\ run' = [run EXCEPT !.comparisonId = <<"comparison", c>>]
               /\ runCalls' = [runCalls EXCEPT
                    ![c].pc = "streams", ![c].modelStreams = "open",
                    ![c].metrics = IF runCalls[c].speedTestEnabled THEN "open"
                                   ELSE "none"]
          ELSE /\ run' = run
               /\ runCalls' = [runCalls EXCEPT ![c].pc = "done"]
  /\ UNCHANGED <<runCleared, pageEvents>>

\* Both model stream tasks have settled (they write to the messages only).
RunModelStreamsSettle ==
  /\ \E c \in 1..MaxRunCalls :
       /\ runCalls[c].modelStreams = "open"
       /\ runCalls' = [runCalls EXCEPT ![c].modelStreams = "closed"]
  /\ UNCHANGED <<run, runCleared, pageEvents>>

\* The metrics stream delivers an event.
RunMetricsDelivers ==
  /\ \E c \in 1..MaxRunCalls, type \in {"live_metrics", "speed_test_results", "error"} :
       /\ runCalls[c].metrics = "open"
       /\ CASE type = "live_metrics" ->
                 /\ runCalls[c].live < MaxMetricsEvents
                 /\ IF \/ runCalls[c].lastMetricsUpdate = NoUpdate
                       \/ now - runCalls[c].lastMetricsUpdate > METRICS_THROTTLE
                    THEN /\ run' = [run EXCEPT
                                      !.liveMetrics = <<"metrics", c, runCalls[c].live + 1>>]
                         /\ runCalls' = [runCalls EXCEPT ![c].lastMetricsUpdate = now,
                                                         ![c].live = @ + 1]
                    ELSE /\ run' = run
                         /\ runCalls' = [runCalls EXCEPT ![c].live = @ + 1]
            [] type = "speed_test_results" ->
                 /\ runCalls[c].results < MaxMetricsEvents
                 /\ run' = [run EXCEPT
                              !.speedTestResults = <<"results", c, runCalls[c].results + 1>>]
                 /\ runCalls' = [runCalls EXCEPT ![c].results = @ + 1]
            [] type = "error" ->
                 /\ run' = [run EXCEPT !.speedTestError = "error"]
                 /\ UNCHANGED runCalls
  /\ UNCHANGED <<runCleared, pageEvents>>

\* The metrics stream ends, or fails (the catch of the metrics task).
RunMetricsSettles ==
  /\ \E c \in 1..MaxRunCalls, outcome \in {"end", "failure"} :
       /\ runCalls[c].metrics = "open"
       /\ runCalls' = [runCalls EXCEPT ![c].metrics = "closed"]
       /\ run' = IF outcome = "failure"
                 THEN [run EXCEPT !.speedTestError = "Failed to load performance metrics"]
                 ELSE run
  /\ UNCHANGED <<runCleared, pageEvents>>

\* Promise.allSettled resolves and sendMessage returns.
RunJoin ==
  /\ \E c \in 1..MaxRunCalls :
       /\ runCalls[c].pc = "streams"
       /\ runCalls[c].modelStreams = "closed"
       /\ runCalls[c].metrics # "open"
       /\ runCalls' = [runCalls EXCEPT ![c].pc = "done"]
  /\ UNCHANGED <<run, runCleared, pageEvents>>

\* The update of clearChat and of the reset callback of a model change.
Discarded(st) ==
  [st EXCEPT !.speedTestResults = NoValue, !.speedTestError = NoValue,
             !.liveMetrics = NoValue, !.comparisonId = NoValue]

\* clearChat
RunClearChat ==
  /\ pageEvents < MaxPageEvents
  /\ pageEvents' = pageEvents + 1
  /\ run' = Discarded(run)
  /\ runCleared' = TRUE
  /\ UNCHANGED runCalls

\* A model prop changes and handleComparisonModelChange detects it: the
\* reset callback runs.
RunModelChange ==
  /\ pageEvents < MaxPageEvents
  /\ pageEvents' = pageEvents + 1
  /\ run' = Discarded(run)
  /\ runCleared' = TRUE
  /\ UNCHANGED runCalls

\* More than the throttle interval passes on the millisecond clock.
RunThrottleElapses ==
  /\ now <= MaxClock * METRICS_THROTTLE
  /\ now' = now + METRICS_THROTTLE + 1
  /\ UNCHANGED <<sessVars, decVars, persistVars, chatVars, pageEvents, lastSend, cmpVars>>

RunFrame ==
  UNCHANGED <<now, decVars, sessVars, persistVars, chatVars, lastSend, cmpMounted,
              cmpInst, selectedLeft, selectedRight, cmp, cmpCalls, activeRequestsRef,
              unloadListeners, unloaded>>

RunNext ==
  \/ RunSendMessage /\ RunFrame
  \/ RunSetupSettles /\ RunFrame
  \/ RunModelStreamsSettle /\ RunFrame
  \/ RunMetricsDelivers /\ RunFrame
  \/ RunMetricsSettles /\ RunFrame
  \/ RunJoin /\ RunFrame
  \/ RunClearChat /\ RunFrame
  \/ RunModelChange /\ RunFrame
  \/ RunThrottleElapses

\* ------------------------------------------------ the beforeunload event

\* removeEventListener followed by addEventListener: the listener moves to the
\* end of the registration order.
WithListener(listeners, l) == Append(SelectSeq(listeners, LAMBDA x : x # l), l)

WithoutListener(listeners, l) == SelectSeq(listeners, LAMBDA x : x # l)

\* useChat mounts: its effects run, the last registers handleBeforeUnload.
UnlMount ==
  /\ ~unloaded
  /\ Mount
  /\ unloadListeners' = WithListener(unloadListeners, "useChat")
  /\ UNCHANGED <<pageEvents, unloaded>>

\* useChat unmounts: the effect's cleanup removes the listener.
UnlUnmount ==
  /\ ~unloaded
  /\ Unmount
  /\ unloadListeners' = WithoutListener(unloadListeners, "useChat")
  /\ UNCHANGED unloaded

\* A state update of useChat that changes state.messages (the conversation
\* grows), then the effects that depend on it: the save, and the cleanup and
\* registration of handleBeforeUnload.
UnlMessages ==
  /\ ~unloaded
  /\ mounted
  /\ \E n \in 1..MaxSaved :
       /\ n > Len(chat.messages)
       /\ Commit([chat EXCEPT !.messages = SubSeq(SampleConversation, 1, n)],
                 activeSessions, counter, persistedSingleChats, selectedModel,
                 FALSE, TRUE)
  /\ unloadListeners' = WithListener(unloadListeners, "useChat")
  /\ UNCHANGED <<mounted, inst, selectedModel, calls, activeRequestRef, pageEvents,
                 unloaded>>

\* useComparisonChat mounts.
UnlCmpMount ==
  /\ ~unloaded
  /\ CmpMount
  /\ unloadListeners' = WithListener(unloadListeners, "useComparisonChat")
  /\ UNCHANGED unloaded

\* useComparisonChat unmounts.
UnlCmpUnmount ==
  /\ ~unloaded
  /\ CmpUnmount
  /\ unloadListeners' = WithoutListener(unloadListeners, "useComparisonChat")
  /\ UNCHANGED unloaded

\* A state update of useComparisonChat that changes the message lists.
UnlCmpMessages ==
  /\ ~unloaded
  /\ cmpMounted
  /\ \E n \in 1..MaxSaved :
       /\ n > Len(cmp.leftChat.messages)
       /\ CmpCommit([cmp EXCEPT !.leftChat.messages = SubSeq(SampleConversation, 1, n),
                                !.rightChat.messages = SubSeq(SampleConversation, 1, n)],
                    activeSessions, counter, persistedComparisonChats,
                    selectedLeft, selectedRight, FALSE, TRUE)
  /\ unloadListeners' = WithListener(unloadListeners, "useComparisonChat")
  /\ UNCHANGED <<cmpMounted, cmpInst, selectedLeft, selectedRight, cmpCalls,
                 activeRequestsRef, pageEvents, unloaded>>

\* The singletons a beforeunload listener reads and writes.
UnloadWorld(sessions, single, comparison) ==
  [sessions |-> sessions, single |-> single, comparison |-> comparison]

\* One listener handles the event: the cache's handleBeforeUnload is
\* clearAllChats, a hook's resets its session and saves its messages.
HandleBeforeUnload(l, w) ==
  CASE l = "cache" ->
         [w EXCEPT !.single = EmptyMap, !.comparison = EmptyMap]
    [] l = "useChat" ->
         [w EXCEPT
            !.sessions = IF chat.sessionId # NoSession
                         THEN resetSession(@, chat.sessionId, now) ELSE @,
            !.single = IF selectedModel # NoModel /\ Len(chat.messages) > 0
                       THEN saveSingleChat(@, selectedModel, chat.messages, now)
                       ELSE @]
    [] l = "useComparisonChat" ->
         [w EXCEPT
            !.sessions = IF cmp.sessionId # NoSession
                         THEN resetSession(@, cmp.sessionId, now) ELSE @,
            !.comparison =
               IF /\ selectedLeft # NoModel /\ selectedRight # NoModel
                  /\ (Len(cmp.leftChat.messages) > 0 \/ Len(cmp.rightChat.messages) > 0)
               THEN saveComparisonChat(@, selectedLeft, selectedRight,
                                       cmp.leftChat.messages, cmp.rightChat.messages, now)
               ELSE @]

RECURSIVE Dispatch(_, _)
\* The event target calls the listeners in the order of their registration.
Dispatch(listeners, w) ==
  IF listeners = <<>> THEN w
  ELSE Dispatch(Tail(listeners), HandleBeforeUnload(Head(listeners), w))

\* The page unloads: beforeunload is dispatched to every registered listener.
BeforeUnload ==
  /\ ~unloaded
  /\ unloaded' = TRUE
  /\ \E w \in {Dispatch(unloadListeners,
                        UnloadWorld(activeSessions, persistedSingleChats,
                                    persistedComparisonChats))} :
       /\ activeSessions' = w.sessions
       /\ persistedSingleChats' = w.single
       /\ persistedComparisonChats' = w.comparison
  /\ UNCHANGED <<now, decVars, counter, config, sessBound, lastResult, eventHandlers,
                 destroyed, chatVars, pageEvents, lastSend, cmpMounted, cmpInst,
                 selectedLeft, selectedRight, cmp, cmpCalls, activeRequestsRef,
                 run, runCalls, runCleared, unloadListeners>>

\* What no step of useChat changes, apart from the listeners.
UnlChatFrame ==
  UNCHANGED <<now, decVars, config, sessBound, lastResult, eventHandlers, destroyed,
              persistedComparisonChats, lastSend, cmpMounted, cmpInst, selectedLeft,
              selectedRight, cmp, cmpCalls, activeRequestsRef, run, runCalls,
              runCleared>>

\* What no step of useComparisonChat changes, apart from the listeners.
UnlCmpFrame ==
  UNCHANGED <<now, decVars, config, sessBound, lastResult, eventHandlers, destroyed,
              persistedSingleChats, chatVars, lastSend, run, runCalls, runCleared>>

UnloadNext ==
  \/ UnlMount /\ UnlChatFrame
  \/ UnlUnmount /\ UnlChatFrame
  \/ UnlMessages /\ UnlChatFrame
  \/ UnlCmpMount /\ UnlCmpFrame
  \/ UnlCmpUnmount /\ UnlCmpFrame
  \/ UnlCmpMessages /\ UnlCmpFrame
  \/ BeforeUnload
  \/ ~unloaded /\ Tick
       /\ UNCHANGED <<sessVars, decVars, persistVars, chatVars, pageEvents, lastSend, cmpVars>>

\* ------------------------------------------------- the comparison hash

\* A model whose id holds the text of a side hash followed by "_vs_" and an id.
LongIdModel ==
  [id |-> <<"a", "_", "a", "_", "F", "_", "vs", "_", "a">>, name |-> <<"a">>,
   provider |-> <<"F">>]

\* The arguments of generateComparisonModelHash: ChatModel | null.
HashModels == ChatModels \cup {LongIdModel, NoModel}

\* An object with the same field values (equal by value, another reference).
CopyOf(m) == [id |-> m.id, name |-> m.name, provider |-> m.provider]

\* A call of generateComparisonModelHash, a call with copies of its arguments
\* and a call with the sides swapped.
HashPair ==
  /\ lastResult.op = "arguments"
  /\ \E leftModel \in {lastResult.leftModel}, rightModel \in {lastResult.rightModel} :
    lastResult' =
      [op |-> "generateComparisonModelHash",
       leftModel |-> leftModel, rightModel |-> rightModel,
       hash |-> generateComparisonModelHash(leftModel, rightModel),
       again |-> generateComparisonModelHash(CopyOf(leftModel), CopyOf(rightModel)),
       swapped |-> generateComparisonModelHash(rightModel, leftModel)]

HashNext ==
  \/ HashPair /\ UNCHANGED <<now, decVars, activeSessions, counter, config, sessBound,
                             eventHandlers, destroyed, persistVars, chatVars,
                             pageEvents, lastSend, cmpVars>>

\* ------------------------------------------------ the thinking parser

\* The longest text handed to parseThinkingContent.
MaxTextLen == 5

\* The tokens of a streamed text: a letter, a blank and the two tags.
TextTokens == {"a", " ", THINK_OPEN, THINK_CLOSE}

ThinkingTexts == UNION {[1..n -> TextTokens] : n \in 0..MaxTextLen}

\* A call of parseThinkingContent.
ParseThinking ==
  /\ lastResult.op = "arguments"
  /\ \E fullContent \in {lastResult.fullContent} :
    lastResult' = [op |-> "parseThinkingContent", fullContent |-> fullContent,
                   result |-> parseThinkingContent(fullContent)]

ThinkingNext ==
  \/ ParseThinking /\ UNCHANGED <<now, decVars, activeSessions, counter, config,
                                  sessBound, eventHandlers, destroyed, persistVars,
                                  chatVars, pageEvents, lastSend, cmpVars>>

\* ------------------------------------------------ listeners that re-enter
\* emitEvent with listeners that call addEventListener or removeEventListener
\* while the event is being delivered.

\* What a listener does with an event: return, throw, remove itself, remove
\* the first registered listener, or register another listener.
ReentrantKinds == {"ok", "throws", "removesSelf", "removesFirst", "adds"}

\* A listener: a function reference (its identity) and what it does.
Listener(id, does) == [id |-> id, does |-> does]

\* An identity no listener of the list has.
FreshId(handlers) ==
  CHOOSE n \in 1..(Len(handlers) + 1) : \A i \in DOMAIN handlers : handlers[i].id # n

\* indexOf and splice(index, 1)
SpliceOut(handlers, id) ==
  IF \E i \in DOMAIN handlers : handlers[i].id = id
  THEN LET k == CHOOSE i \in DOMAIN handlers :
                  handlers[i].id = id /\ \A j \in 1..(i - 1) : handlers[j].id # id
       IN SubSeq(handlers, 1, k - 1) \o SubSeq(handlers, k + 1, Len(handlers))
  ELSE handlers

\* The listener list after listener h has handled an event.
AfterHandler(handlers, h) ==
  CASE h.does = "removesSelf" -> SpliceOut(handlers, h.id)
    [] h.does = "removesFirst" -> IF handlers = <<>> THEN handlers ELSE Tail(handlers)
    [] h.does = "adds" -> Append(handlers, Listener(FreshId(handlers), "ok"))
    [] OTHER -> handlers

RECURSIVE ForEachHandler(_, _, _, _)
\* Array.prototype.forEach over this.eventHandlers: the indices below the
\* length at the start are visited in order, each one looked up in the array
\* as it is at that moment; an index the array no longer has is passed over.
ForEachHandler(handlers, k, len, called) ==
  IF k > len THEN [handlers |-> handlers, called |-> called]
  ELSE IF k > Len(handlers) THEN ForEachHandler(handlers, k + 1, len, called)
  ELSE ForEachHandler(AfterHandler(handlers, handlers[k]), k + 1, len,
                      Append(called, handlers[k].id))

\* SessionTracker.addEventListener
EmitAddEventListener ==
  /\ Len(eventHandlers) < MaxHandlers
  /\ \E does \in ReentrantKinds :
       eventHandlers' = Append(eventHandlers, Listener(FreshId(eventHandlers), does))
  /\ lastResult' = [op |-> "addEventListener"]

\* SessionTracker.removeEventListener
EmitRemoveEventListener ==
  /\ \E k \in DOMAIN eventHandlers :
       eventHandlers' = SpliceOut(eventHandlers, eventHandlers[k].id)
  /\ lastResult' = [op |-> "removeEventListener"]

\* SessionTracker.emitEvent with the listeners registered at that moment.
EmitEvent ==
  /\ eventHandlers # <<>>
  /\ \E r \in {ForEachHandler(eventHandlers, 1, Len(eventHandlers), <<>>)} :
       /\ Len(r.handlers) <= MaxHandlers + 1
       /\ eventHandlers' = r.handlers
       /\ lastResult' = [op |-> "emitEvent",
                         registered |-> [i \in DOMAIN eventHandlers |-> eventHandlers[i].id],
                         called |-> r.called]

EmitFrame ==
  UNCHANGED <<now, decVars, activeSessions, counter, config, sessBound, destroyed,
              persistVars, chatVars, pageEvents, lastSend, cmpVars>>

EmitNext ==
  \/ EmitAddEventListener /\ EmitFrame
  \/ EmitRemoveEventListener /\ EmitFrame
  \/ EmitEvent /\ EmitFrame

\* ------------------------------------------------------ specifications

\* The states after construction, one definition for each specification.
InitDecode == DecInit /\ now = 0 /\ SessIdle /\ PersistIdle /\ ChatIdle /\ CmpIdle

InitSession == SessInit /\ DecIdle /\ PersistIdle /\ ChatIdle /\ CmpIdle

InitChat == ChatInit /\ SessInit /\ DecIdle /\ PersistIdle /\ CmpIdle

InitCompare == CmpInit /\ SessInit /\ DecIdle /\ PersistIdle /\ ChatIdle

InitRun == SessInit /\ DecIdle /\ PersistIdle /\ ChatIdle /\ CmpIdle

InitUnload == ChatInit /\ CmpInit /\ SessInit /\ DecIdle /\ PersistIdle

\* The session singletons before any call, apart from the last call's record.
TrackerIdle ==
  /\ now = 0
  /\ activeSessions = EmptyMap
  /\ counter = 0
  /\ config = DEFAULT_SESSION_CONFIG
  /\ sessBound = EmptyMap
  /\ eventHandlers = <<>>
  /\ destroyed = {}

\* The arguments of the call of generateComparisonModelHash.
InitHash ==
  /\ \E leftModel \in HashModels, rightModel \in HashModels :
       lastResult = [op |-> "arguments", leftModel |-> leftModel,
                     rightModel |-> rightModel]
  /\ TrackerIdle /\ DecIdle /\ PersistIdle /\ ChatIdle /\ CmpIdle

InitEmit == SessInit /\ DecIdle /\ PersistIdle /\ ChatIdle /\ CmpIdle

\* The argument of the call of parseThinkingContent.
InitThinking ==
  /\ \E fullContent \in ThinkingTexts :
       lastResult = [op |-> "arguments", fullContent |-> fullContent]
  /\ TrackerIdle /\ DecIdle /\ PersistIdle /\ ChatIdle /\ CmpIdle

SpecDecode == InitDecode /\ [][DecNext]_vars

SpecSession == InitSession /\ [][SessNext]_vars

SpecPersist == InitSession /\ [][PersistNext]_vars

SpecTracker == InitSession /\ [][TrkNext]_vars

SpecListeners == InitSession /\ [][ListenerNext]_vars

SpecChat == InitChat /\ [][ChatNext]_vars

SpecCompare == InitCompare /\ [][CmpNext]_vars

SpecRun == InitRun /\ [][RunNext]_vars

SpecUnload == InitUnload /\ [][UnloadNext]_vars

SpecHash == InitHash /\ [][HashNext]_vars

SpecThinking == InitThinking /\ [][ThinkingNext]_vars

SpecEmit == InitEmit /\ [][EmitNext]_vars

SpecMetrics == InitCompare /\ [][MetricsNext]_vars

\* A step of the network: a pending call settles, a stream delivers, ends or
\* fails.
ChatNetworkStep ==
  /\ \/ CountMessageSettles
     \/ SendSingleChatSettles
     \/ ReaderDelivers
     \/ ReaderEnds
     \/ ReaderRejects
  /\ UNCHANGED pageEvents
  /\ ChatFrame

\* SpecChat with every network call and stream terminating.
SpecChatFair == SpecChat /\ WF_vars(ChatNetworkStep)

\* ---------------------------------------------------------------- claims

\* C1: however the bytes of a body are cut into chunks, the decoder yields
\* the event sequence it yields when the body arrives as one chunk.
C1_ChunkingInvariant ==
  dPc = "returned" => dOut = DecodeWhole(dBody)

\* C2: when a stream has delivered an event of type error, the call ends
\* with its assistant message carrying an error, not streaming and empty.
C2_ErrorEventFinalizes ==
  \A c \in 1..MaxCalls :
    (calls[c].pc = "done" /\ calls[c].sawError /\ Live(c))
    => \A i \in DOMAIN chat.messages :
         chat.messages[i].id = calls[c].asstId
         => /\ chat.messages[i].error # NoError
            /\ ~chat.messages[i].isStreaming
            /\ chat.messages[i].content = <<>>

Other(side) == IF side = "left" THEN "right" ELSE "left"

SideMessages(side) ==
  IF side = "left" THEN cmp.leftChat.messages ELSE cmp.rightChat.messages

\* The stream of the task failed: a request or a read was rejected, or the
\* stream delivered an event of type error.
StreamFailed(task) == task.rejected \/ task.sawError

\* C3: after the join of a comparison call in which the stream of one side
\* failed and the stream of the other side succeeded, the failed side's
\* assistant message carries an error and is not streaming, and the other
\* side's assistant message has its full content, no error, and is not
\* streaming.
C3_PartialFailureIsolated ==
  \A c \in 1..MaxCmpCalls, side \in Sides :
    LET call == cmpCalls[c]
        bad == SideMessages(side)
        good == SideMessages(Other(side))
    IN (/\ call.pc = "done"
        /\ call.left.pc = "settled"
        /\ call.right.pc = "settled"
        /\ CmpLive(c)
        /\ StreamFailed(TaskOf(call, side))
        /\ ~StreamFailed(TaskOf(call, Other(side))))
       => /\ \A i \in DOMAIN bad :
               bad[i].id = AsstId(call, side)
               => bad[i].error # NoError /\ ~bad[i].isStreaming
          /\ \A i \in DOMAIN good :
               good[i].id = AsstId(call, Other(side))
               => /\ good[i].error = NoError
                  /\ ~good[i].isStreaming
                  /\ good[i].content =
                       parseThinkingContent(TaskOf(call, Other(side)).content).content

\* C4: every state update of the left stream task leaves the right message
\* list unchanged, and every update of the right stream task leaves the left
\* message list unchanged.
C4_StreamsIsolated ==
  [][ /\ TaskStep("left") => cmp'.rightChat.messages = cmp.rightChat.messages
      /\ TaskStep("right") => cmp'.leftChat.messages = cmp.leftChat.messages ]_vars

\* The left task of a live call has applied content while the right message
\* of the call is still streaming.
C4_Witness ==
  \E c \in 1..MaxCmpCalls :
    /\ CmpLive(c)
    /\ cmpCalls[c].pc = "streams"
    /\ cmpCalls[c].right.pc = "stream"
    /\ \E i \in DOMAIN cmp.leftChat.messages :
         /\ cmp.leftChat.messages[i].id = cmpCalls[c].leftId
         /\ cmp.leftChat.messages[i].content # <<>>
    /\ \E j \in DOMAIN cmp.rightChat.messages :
         /\ cmp.rightChat.messages[j].id = cmpCalls[c].rightId
         /\ cmp.rightChat.messages[j].isStreaming

\* C5: the cache entry of a model holds only messages that were produced
\* while that model was the selected one.
C5_NoBlendedHistory ==
  \A k \in DOMAIN persistedSingleChats :
    \A i \in DOMAIN persistedSingleChats[k].messages :
      persistedSingleChats[k].messages[i].origin = persistedSingleChats[k].modelId

\* C6: a comparison chat saved for the pair (A, B) is returned by
\* getComparisonChat(B, A): the cache does not depend on the order of the pair.
C6_PairOrderIndependent ==
  LET key == generateComparisonChatKey(lastResult.leftModel.id, lastResult.rightModel.id) IN
  (lastResult.op = "getComparisonChat"
     /\ key \in DOMAIN persistedComparisonChats
     /\ persistedComparisonChats[key].leftModelId = lastResult.rightModel.id
     /\ persistedComparisonChats[key].rightModelId = lastResult.leftModel.id)
  => \/ lastResult.result =
          [leftMessages |-> persistedComparisonChats[key].leftChat.messages,
           rightMessages |-> persistedComparisonChats[key].rightChat.messages]
     \/ lastResult.result =
          [leftMessages |-> persistedComparisonChats[key].rightChat.messages,
           rightMessages |-> persistedComparisonChats[key].leftChat.messages]

\* C7: for a session bound to model A under the default configuration, the
\* model-change handler called with a model equal to A returns
\* shouldReset = FALSE and leaves modelHash unchanged, and called with a
\* model of another id returns shouldReset = TRUE.
C7_ModelChangeDetection ==
  (lastResult.op = "handleSingleModelChange"
     /\ lastResult.config = DEFAULT_SESSION_CONFIG)
  => /\ lastResult.newModel = lastResult.bound[1]
          => /\ ~lastResult.shouldReset
             /\ activeSessions[lastResult.arg].modelHash = lastResult.hashBefore
     /\ lastResult.newModel.id # lastResult.bound[1].id
          => lastResult.shouldReset

\* C8: a message whose error is set has empty content and is not streaming.
C8_ErrorExcludesContent ==
  \A i \in DOMAIN chat.messages :
    chat.messages[i].error # NoError
    => chat.messages[i].content = <<>> /\ ~chat.messages[i].isStreaming

InFlight(c) == calls[c].pc \in {"quota", "fetch", "stream"}

\* C9: the conversation holds exactly one streaming message for each request
\* in flight, and none when no request is in flight.
C9_OneStreamingPerRequest ==
  mounted
  => Cardinality({i \in DOMAIN chat.messages : chat.messages[i].isStreaming})
       = Cardinality({c \in 1..MaxCalls : InFlight(c) /\ calls[c].inst = inst})

\* The conversation shows a streaming assistant message of this id.
Streaming(id) ==
  /\ mounted
  /\ \E i \in DOMAIN chat.messages :
       /\ chat.messages[i].id = id
       /\ chat.messages[i].role = "assistant"
       /\ chat.messages[i].isStreaming

\* C10: when every network call and stream terminates, a streaming assistant
\* message is eventually not streaming any more (or is gone).
C10_StreamingEnds ==
  \A id \in 1..(MaxClock + 1) : Streaming(id) ~> ~Streaming(id)

\* The validation of sendMessage rejects the call: blank text, no model or
\* no session.
Rejected ==
  \/ trim(lastSend'.content) = <<>>
  \/ selectedModel = NoModel
  \/ chat.sessionId = NoSession

\* What a sendMessage call of the hook can touch: the conversation, the
\* calls and their controller, the sessions and the cache.
SendFootprint ==
  <<chat, calls, activeRequestRef, activeSessions, counter, persistedSingleChats>>

C12_QuotaFailureFinalizes ==
  \A c \in 1..MaxCmpCalls :
    (cmpCalls[c].quota = "limited" /\ CmpLive(c))
    => /\ \A side \in Sides : TaskOf(cmpCalls[c], side).pc = "none"
       /\ \A side \in Sides :
            \A i \in DOMAIN SideMessages(side) :
              SideMessages(side)[i].id = AsstId(cmpCalls[c], side)
              => /\ SideMessages(side)[i].error = DAILY_LIMIT
                 /\ ~SideMessages(side)[i].isStreaming

\* Call c of the hook completes its stream normally in this step: the stream
\* ends by a done event, the sentinel or the end of the body, it carried no
\* error event, and the hook instance of the call is mounted.
CompletesNormally(c) ==
  /\ ReaderDelivers \/ ReaderEnds
  /\ calls[c].pc = "stream"
  /\ calls'[c].pc = "done"
  /\ ~calls'[c].sawError
  /\ Live(c)

\* C13: when a call completes its stream normally, the conversation holds
\* at most one assistant message of the call, and that message is not
\* streaming and its content is the concatenation, in arrival order, of the
\* content events of the call's stream.
C13_ContentIsConcatenation ==
  [][\A c \in 1..MaxCalls :
       CompletesNormally(c)
       => /\ Cardinality({i \in DOMAIN chat'.messages :
                            chat'.messages[i].id = calls[c].asstId}) <= 1
          /\ \A i \in DOMAIN chat'.messages :
               chat'.messages[i].id = calls[c].asstId
               => /\ ~chat'.messages[i].isStreaming
                  /\ chat'.messages[i].content = calls'[c].fullContent]_vars

\* A step of the manager operation `op`: the record of the last call names
\* it, and the step is not the clock's (which leaves record and map alone).
StepOf(ops) ==
  /\ lastResult'.op \in ops
  /\ <<lastResult, activeSessions>>' # <<lastResult, activeSessions>>

\* A step of one of the two model-change handlers.
HandlesModelChange == StepOf({"handleSingleModelChange", "handleComparisonModelChange"})

\* C14: with resetOnModelChange and autoReset both true, a detected model
\* change mutates the same session: the handler returns the id passed in,
\* the session's modelHash is the fingerprint of the new model(s), its
\* conversationId is cleared, no session appears or disappears, and onReset
\* has been invoked exactly once when the handler returns.
C14_AutoResetMutatesSameSession ==
  [][(/\ HandlesModelChange
      /\ config.resetOnModelChange /\ config.autoReset
      /\ lastResult'.shouldReset)
     => LET sid == lastResult'.arg IN
        /\ lastResult'.sessionId = sid
        /\ DOMAIN activeSessions' = DOMAIN activeSessions
        /\ sid \in DOMAIN activeSessions'
        /\ activeSessions'[sid].id = sid
        /\ activeSessions'[sid].modelHash = HashOfBound(lastResult'.models)
        /\ activeSessions'[sid].conversationId = NoConversation
        /\ lastResult'.onReset = 1]_vars

C14_Witness ==
  /\ lastResult.op = "handleComparisonModelChange"
  /\ lastResult.config = DEFAULT_SESSION_CONFIG
  /\ lastResult.shouldReset
  /\ lastResult.sessionId = lastResult.arg
  /\ lastResult.onReset = 1
  /\ lastResult.arg \in DOMAIN activeSessions
  /\ activeSessions[lastResult.arg].modelHash = HashOfBound(lastResult.models)

\* C15: with resetOnModelChange true and autoReset false, a detected model
\* change creates a session that did not exist and whose id was never issued
\* before, bound to the new model(s); the handler returns that id, which is
\* not the id passed in, and the session passed in is left as it was.
C15_NoAutoResetCreatesSession ==
  [][(/\ HandlesModelChange
      /\ config.resetOnModelChange /\ ~config.autoReset
      /\ lastResult'.shouldReset)
     => LET new == lastResult'.sessionId IN
        /\ new # lastResult'.arg
        /\ new \notin DOMAIN sessBound
        /\ DOMAIN activeSessions' = DOMAIN activeSessions \cup {new}
        /\ activeSessions'[new].id = new
        /\ activeSessions'[new].modelHash = HashOfBound(lastResult'.models)
        /\ \A x \in DOMAIN activeSessions : activeSessions'[x] = activeSessions[x]
        /\ lastResult'.onReset = 0]_vars

C15_Witness ==
  /\ lastResult.op = "handleSingleModelChange"
  /\ lastResult.config.resetOnModelChange /\ ~lastResult.config.autoReset
  /\ lastResult.shouldReset
  /\ lastResult.sessionId # lastResult.arg
  /\ {lastResult.sessionId, lastResult.arg} \subseteq DOMAIN activeSessions
  /\ activeSessions[lastResult.sessionId].modelHash = HashOfBound(lastResult.models)
  /\ activeSessions[lastResult.arg].modelHash # HashOfBound(lastResult.models)

\* C16: with resetOnModelChange false the handlers return shouldReset = false
\* and the id passed in, even when the new model(s) differ from the bound
\* ones; onReset is not invoked, no session appears or disappears, and the
\* session's modelHash and conversationId are left as they were.
C16_ResetSuppressed ==
  [][(HandlesModelChange /\ ~config.resetOnModelChange)
     => LET sid == lastResult'.arg IN
        /\ ~lastResult'.shouldReset
        /\ lastResult'.sessionId = sid
        /\ lastResult'.onReset = 0
        /\ DOMAIN activeSessions' = DOMAIN activeSessions
        /\ sid \in DOMAIN activeSessions =>
             /\ activeSessions'[sid].modelHash = activeSessions[sid].modelHash
             /\ activeSessions'[sid].conversationId = activeSessions[sid].conversationId]_vars

C16_Witness ==
  /\ lastResult.op = "handleSingleModelChange"
  /\ ~lastResult.config.resetOnModelChange
  /\ ~lastResult.shouldReset
  /\ lastResult.sessionId = lastResult.arg
  /\ lastResult.arg \in DOMAIN activeSessions
  /\ activeSessions[lastResult.arg].modelHash # HashOfBound(lastResult.models)
  /\ activeSessions[lastResult.arg].conversationId = "conv"

\* C17: in every reachable state each session's modelHash is the fingerprint
\* of the model(s) last bound to it by createSession or updateModelHash, and
\* a step of updateActivity, activateSession, deactivateSession or
\* resetSession changes no session's modelHash and no session's id, and adds
\* or removes no session.
C17_ModelHashTracksBinding ==
  /\ [](\A id \in DOMAIN activeSessions :
          /\ id \in DOMAIN sessBound
          /\ activeSessions[id].modelHash = HashOfBound(sessBound[id]))
  /\ [][StepOf({"updateSessionActivity", "activateSession", "deactivateSession",
                "resetSession"})
        => /\ DOMAIN activeSessions' = DOMAIN activeSessions
           /\ \A id \in DOMAIN activeSessions :
                /\ activeSessions'[id].modelHash = activeSessions[id].modelHash
                /\ activeSessions'[id].id = activeSessions[id].id]_vars

C17_Witness ==
  /\ lastResult.op = "resetSession"
  /\ lastResult.events # <<>>
  /\ lastResult.arg \in DOMAIN activeSessions
  /\ Len(sessBound[lastResult.arg]) = 2
  /\ activeSessions[lastResult.arg].id = lastResult.arg
  /\ activeSessions[lastResult.arg].modelHash = HashOfBound(sessBound[lastResult.arg])

\* What the listeners receive when every one of them gets every event, in
\* the order emitted.
RECURSIVE DeliveredToAll(_, _)
DeliveredToAll(n, events) ==
  IF events = <<>> THEN <<>>
  ELSE [i \in 1..n |-> <<i, Head(events)>>] \o DeliveredToAll(n, Tail(events))

EmittingOps == {"createSingleSession", "handleSingleModelChange", "activateSession",
                "deactivateSession", "cleanupInactiveSessions"}

\* C18: when some listener throws, an operation that emits still hands each
\* of its events to every registered listener in order (those after the
\* thrower included), no exception leaves the operation, and the session
\* map afterwards is the one the same operation produces when no listener
\* throws.
C18_ThrowingListenerIsContained ==
  [][(/\ StepOf(EmittingOps)
      /\ \E i \in DOMAIN eventHandlers : eventHandlers[i] = "throws")
     => /\ ~lastResult'.escaped
        /\ lastResult'.delivered = DeliveredToAll(Len(eventHandlers), lastResult'.events)
        /\ lastResult'.events =
             RunCalls(activeSessions, lastResult'.script,
                      [i \in DOMAIN eventHandlers |-> "ok"], now).events
        /\ activeSessions' =
             RunCalls(activeSessions, lastResult'.script,
                      [i \in DOMAIN eventHandlers |-> "ok"], now).sessions]_vars

C18_Witness ==
  /\ lastResult.op = "handleSingleModelChange"
  /\ eventHandlers = <<"throws", "ok">>
  /\ Len(lastResult.events) = 2
  /\ Len(lastResult.delivered) = 4
  /\ lastResult.delivered[2][1] = 2
  /\ ~lastResult.escaped
  /\ activeSessions[lastResult.arg].modelHash = HashOfBound(lastResult.models)

\* C19: a step of cleanupInactiveSessions(max) removes exactly the sessions
\* with now - lastActivity > max and leaves every other session as it was;
\* the events of the step are one session_destroyed for each removed
\* session and nothing else, each the event destroySession emits for that
\* id, and delivered to every listener.
C19_CleanupRemovesExactlyExpired ==
  [][StepOf({"cleanupInactiveSessions"})
     => LET max == lastResult'.arg
            expired == {id \in DOMAIN activeSessions :
                          now - activeSessions[id].lastActivity > max}
            events == lastResult'.events
        IN /\ DOMAIN activeSessions' = DOMAIN activeSessions \ expired
           /\ \A id \in DOMAIN activeSessions' : activeSessions'[id] = activeSessions[id]
           /\ Len(events) = Cardinality(expired)
           /\ \A id \in expired :
                Cardinality({i \in DOMAIN events :
                   events[i] = TrackerEvent(activeSessions,
                      TrackerCall("destroySession", id, <<>>, NoConversation))}) = 1
           /\ \A i \in DOMAIN events : events[i].type = "session_destroyed"
           /\ destroyed' = destroyed \cup expired
           /\ lastResult'.delivered = DeliveredToAll(Len(eventHandlers), events)]_vars

C19_Witness ==
  /\ lastResult.op = "cleanupInactiveSessions"
  /\ Len(lastResult.events) = 1
  /\ lastResult.events[1].sessionId \notin DOMAIN activeSessions
  /\ \E id \in DOMAIN activeSessions :
       now - activeSessions[id].lastActivity = lastResult.arg

\* C20: every id that createSingleSession, createComparisonSession or a
\* model-change handler generates differs from every id generated before,
\* and a session that destroySession removed is never in the map again.
C20_SessionIdsNeverReused ==
  /\ [][counter' # counter
        => /\ lastResult'.sessionId \notin DOMAIN sessBound
           /\ lastResult'.sessionId \notin destroyed
           /\ DOMAIN sessBound' = DOMAIN sessBound \cup {lastResult'.sessionId}]_vars
  /\ [](destroyed \cap DOMAIN activeSessions = {})

C20_Witness ==
  /\ lastResult.op = "createComparisonSession"
  /\ lastResult.sessionId \in DOMAIN activeSessions
  /\ \E d \in destroyed : d[2] = lastResult.sessionId[2]

\* A model stream of call c is outstanding: the request has been issued (or
\* the body is being read) and has not settled.
Outstanding(c) == calls[c].pc \in {"fetch", "stream"}

\* C21: when the component unmounts, every model stream that a sendMessage
\* call of the unmounting instance still has outstanding is aborted.
C21_TeardownAbortsOutstanding ==
  [][(mounted /\ ~mounted')
     => \A c \in 1..MaxCalls :
          (Outstanding(c) /\ calls[c].inst = inst) => calls'[c].aborted]_vars

\* C30: when a sendMessage call installs its abort controller while the
\* model stream of an earlier call of the same instance is outstanding, the
\* earlier call's controller is aborted.
C30_SupersedingCallAborts ==
  [][\A c \in 1..MaxCalls :
       (activeRequestRef' = c /\ activeRequestRef # c)
       => \A d \in 1..MaxCalls \ {c} :
            (Outstanding(d) /\ calls[d].inst = inst) => calls'[d].aborted]_vars

\* C29: in every reachable state the ids of the messages of the
\* conversation are pairwise distinct.
C29_MessageIdsDistinct ==
  \A i, j \in DOMAIN chat.messages :
    i # j => chat.messages[i].id # chat.messages[j].id

SetupFailed(call) == call.init = "failed" \/ call.quota = "limited"

\* The assistant messages of call c, by id, in a list of one side.
Finalized(messages, id) ==
  \A i \in DOMAIN messages :
    messages[i].id = id => ~messages[i].isStreaming /\ messages[i].error # NoError

\* C25: a sendMessage call whose comparison-init call failed or whose quota
\* check signalled the hard failure never opens a model stream or the
\* metrics stream (speedTestEnabled or not), and once the call has returned
\* the assistant messages it appended on both sides have isStreaming = false
\* and an error, in the conversation of its instance and in every copy of the
\* conversation that the persistence cache holds.
C25_SetupFailureOpensNoStream ==
  \A c \in 1..MaxCmpCalls :
    SetupFailed(cmpCalls[c])
    => /\ \A side \in Sides : TaskOf(cmpCalls[c], side).pc = "none"
       /\ cmpCalls[c].metrics = "none"
       /\ (cmpCalls[c].pc = "done" /\ CmpLive(c))
          => /\ \A side \in Sides :
                  Finalized(SideMessages(side), AsstId(cmpCalls[c], side))
             /\ \A key \in DOMAIN persistedComparisonChats :
                  /\ Finalized(persistedComparisonChats[key].leftChat.messages,
                               AsstId(cmpCalls[c], "left"))
                  /\ Finalized(persistedComparisonChats[key].rightChat.messages,
                               AsstId(cmpCalls[c], "right"))

\* The run of an exchange is discarded: none of its three fields has a value.
RunDiscarded ==
  /\ run.comparisonId = NoValue
  /\ run.liveMetrics = NoValue
  /\ run.speedTestResults = NoValue

\* C23: while a sendMessage call waits for its comparison-init call and no
\* other call is in flight, comparisonId, liveMetrics and speedTestResults
\* are undefined.
C23_NewMessageDiscardsRun ==
  \A c \in 1..MaxRunCalls :
    (/\ runCalls[c].pc = "setup"
     /\ \A d \in 1..MaxRunCalls \ {c} : runCalls[d].pc \in {"idle", "done"})
    => RunDiscarded

\* C24: after clearChat or a detected model change, and until the next
\* sendMessage, comparisonId, liveMetrics and speedTestResults are undefined.
C24_DiscardedRunStaysDiscarded == runCleared => RunDiscarded

\* C26: once the beforeunload event has been handled by every registered
\* listener (the cache's own and the hooks'), the persistence cache holds no
\* conversation, single or comparison.
C26_UnloadLeavesCacheEmpty ==
  unloaded => /\ persistedSingleChats = EmptyMap
              /\ persistedComparisonChats = EmptyMap

\* C27: generateComparisonModelHash gives equal hashes for pairs of models that
\* are equal by value, and for two different models A and B the hash of (A, B)
\* differs from the hash of (B, A).
C27_ComparisonHashStableAndOrdered ==
  lastResult.op = "generateComparisonModelHash" =>
    /\ lastResult.hash = lastResult.again
    /\ lastResult.leftModel # lastResult.rightModel =>
         lastResult.hash # lastResult.swapped

\* The places of the first opening tag of a text and of the first closing tag
\* after it (0: none).
FirstOpen(text) ==
  IF \E i \in DOMAIN text : text[i] = THINK_OPEN
  THEN CHOOSE i \in DOMAIN text :
         text[i] = THINK_OPEN /\ \A j \in 1..(i - 1) : text[j] # THINK_OPEN
  ELSE 0

FirstCloseAfter(text, open) ==
  IF \E i \in (open + 1)..Len(text) : text[i] = THINK_CLOSE
  THEN CHOOSE i \in (open + 1)..Len(text) :
         text[i] = THINK_CLOSE /\ \A j \in (open + 1)..(i - 1) : text[j] # THINK_CLOSE
  ELSE 0

\* C28: parseThinkingContent splits a text: with a complete <think>X</think>
\* span thinking is X trimmed and content is the text without the span,
\* trimmed; with an opening tag and no closing tag after it content is the
\* trimmed text before the tag and thinking is everything after the tag; with
\* no tag thinking is empty and content is the input unchanged.
C28_ThinkingSplit ==
  lastResult.op = "parseThinkingContent" =>
    LET text == lastResult.fullContent
        res == lastResult.result
        open == FirstOpen(text)
        close == IF open = 0 THEN 0 ELSE FirstCloseAfter(text, open)
        before == SubSeq(text, 1, open - 1)
    IN /\ (open # 0 /\ close # 0) =>
            /\ res.thinking = trim(SubSeq(text, open + 1, close - 1))
            /\ res.content = trim(before \o SubSeq(text, close + 1, Len(text)))
       /\ (open # 0 /\ close = 0) =>
            /\ res.content = trim(before)
            /\ res.thinking = SubSeq(text, open + 1, Len(text))
       /\ (\A i \in DOMAIN text : text[i] \notin {THINK_OPEN, THINK_CLOSE}) =>
            /\ res.thinking = <<>>
            /\ res.content = text

\* A text with blanks around an unclosed opening tag has been parsed: the
\* content lost its blank, the thinking kept its own.
C28_Witness ==
  /\ lastResult.op = "parseThinkingContent"
  /\ lastResult.fullContent = <<"a", " ", THINK_OPEN, " ", "a">>
  /\ lastResult.result = [thinking |-> <<" ", "a">>, content |-> <<"a">>]

\* C31: an event is handed exactly once to every listener that is registered
\* when it is emitted, in the order of registration, whatever the listeners
\* do while it is delivered.
C31_EachListenerOnce ==
  lastResult.op = "emitEvent" => lastResult.called = lastResult.registered

\* C32: once the metrics stream of a call has ended (no other call was made
\* and nothing cleared the run), liveMetrics is the last live_metrics event
\* the stream delivered and speedTestResults the last speed_test_results
\* event, however close in time the events were.
C32_ThrottleKeepsLastUpdate ==
  \A c \in 1..MaxRunCalls :
    (/\ runCalls[c].metrics = "closed"
     /\ pageEvents = 0
     /\ \A d \in 1..MaxRunCalls \ {c} : runCalls[d].pc = "idle")
    => /\ runCalls[c].live > 0 => run.liveMetrics = <<"metrics", c, runCalls[c].live>>
       /\ runCalls[c].results > 0
            => run.speedTestResults = <<"results", c, runCalls[c].results>>

\* The lines of a body (the text after the last line feed is no line).
BodyLines(body) == LET ls == split(body) IN SubSeq(ls, 1, Len(ls) - 1)

\* The place of the first sentinel line among the lines, 0 if none.
FirstSentinel(lines) ==
  IF \E i \in DOMAIN lines : lines[i] = <<DATA, DONE_SENTINEL>>
  THEN CHOOSE i \in DOMAIN lines :
         /\ lines[i] = <<DATA, DONE_SENTINEL>>
         /\ \A j \in 1..(i - 1) : lines[j] # <<DATA, DONE_SENTINEL>>
  ELSE 0

\* The events of the lines before the first sentinel line.
EventsBeforeSentinel(lines) ==
  LET k == FirstSentinel(lines) IN
  [i \in 1..(k - 1) |-> FrameLine(lines[i])]

\* C33: a body that holds the sentinel line data: [DONE] delivers events of
\* the lines before the sentinel only: none for the sentinel and none for
\* any line after it, in the same chunk or in a later one.
C33_NothingAfterSentinel ==
  LET lines == BodyLines(dBody) IN
  FirstSentinel(lines) # 0
  => /\ Range(dOut) \subseteq Range(EventsBeforeSentinel(lines))
     /\ Len(dOut) <= FirstSentinel(lines) - 1

\* A line ends the stream: the sentinel, or a done event.
Terminates(line) == FrameLine(line).type \in {"sentinel", "done"}

\* A data line whose payload JSON.parse rejects.
Malformed(line) ==
  line # <<>> /\ Head(line) = DATA /\ FrameLine(line).type = "SyntaxError"

RECURSIVE WellFormedEvents(_)
\* The content, tool-call and finish-reason events of the lines up to the
\* line that ends the stream, in order.
WellFormedEvents(lines) ==
  IF lines = <<>> \/ Terminates(Head(lines)) THEN <<>>
  ELSE IF FrameLine(Head(lines)).type \in {"content", "tool_calls", "finish_reason"}
  THEN <<FrameLine(Head(lines))>> \o WellFormedEvents(Tail(lines))
  ELSE WellFormedEvents(Tail(lines))

\* C34: when a body holds a data line whose payload is not valid JSON, the
\* decoder has delivered, once it has returned, every well-formed event of the
\* lines before and after that line, in order.
C34_MalformedLineSkipped ==
  LET lines == BodyLines(dBody) IN
  (/\ dPc = "returned"
   /\ \E i \in DOMAIN lines :
        Malformed(lines[i]) /\ \A j \in 1..(i - 1) : ~Terminates(lines[j]))
  => dOut = WellFormedEvents(lines)

\* C35: whenever the decoding loop has been left (end of body, done event,
\* [DONE] sentinel, thrown error or abort, abandonment by the consumer), the
\* reader no longer holds the lock of the stream.
C35_LockReleased ==
  dPc # "reading" => ~dLock

\* The loop was left by a rejected read after it had yielded an event.
C35_Witness ==
  dPc = "threw" /\ dOut # <<>> /\ ~dLock

\* The send of call c fails with HTTP 429 in this step, at the quota check
\* or at the chat request, while the hook instance of the call is mounted.
RateLimitFailure(c) ==
  /\ calls[c].pc \in {"quota", "fetch"}
  /\ calls'[c].pc = "limited"
  /\ Live(c)

C37_AbsentSessionUntouched ==
  [][(/\ StepOf({"handleSingleModelChange"})
      /\ lastResult'.arg \notin DOMAIN activeSessions)
     => /\ ~lastResult'.shouldReset
        /\ lastResult'.sessionId = lastResult'.arg
        /\ lastResult'.onReset = 0
        /\ lastResult'.events = <<>>
        /\ lastResult'.delivered = <<>>
        /\ activeSessions' = activeSessions
        /\ counter' = counter]_vars

\* The handler was called, under the default configuration, on a destroyed
\* session and a model other than the one that session was bound to.
C37_Witness ==
  /\ lastResult.op = "handleSingleModelChange"
  /\ lastResult.arg \in destroyed
  /\ lastResult.arg \notin DOMAIN activeSessions
  /\ lastResult.config = DEFAULT_SESSION_CONFIG
  /\ HashOfBound(lastResult.models) # HashOfBound(sessBound[lastResult.arg])
  /\ ~lastResult.shouldReset

\* A step of a send already made: its quota check or its request settles,
\* or its reader delivers a chunk, ends or rejects.
StreamEvent ==
  \/ CountMessageSettles
  \/ SendSingleChatSettles
  \/ ReaderDelivers
  \/ ReaderEnds
  \/ ReaderRejects

\* C38: once clearChat or the model-change reset has emptied the
\* conversation while a send is in flight, no event of that send (content,
\* tool calls, completion, error, rejection) puts a message back or changes
\* one: the list is empty after every such step, and it stays empty over
\* every step of the mounted hook in which no sendMessage starts a call.
\* (A later sendMessage appends messages whose ids come from the clock; what
\* happens when they coincide with the ids of the earlier send is the
\* subject of C29.)
C38_ClearedStaysEmpty ==
  [][(/\ mounted /\ mounted'
      /\ chat.messages = <<>>
      /\ \/ StreamEvent
         \/ \A c \in 1..MaxCalls : calls[c].pc = "idle" <=> calls'[c].pc = "idle")
     => chat'.messages = <<>>]_vars

\* A send was made, the conversation was cleared while it was in flight, and
\* the send then failed after content had arrived: the error is in the
\* state, set after the clear, and the list is empty.
C38_Witness ==
  /\ mounted
  /\ chat.messages = <<>>
  /\ chat.error # NoError
  /\ \E c \in 1..MaxCalls :
       /\ calls[c].pc = "done"
       /\ calls[c].inst = inst
       /\ calls[c].fullContent # <<>>

\* C39: when the hook mounts and its session-creation effect restores the
\* conversation cached for the model, no restored message has isStreaming
\* true, also when the cache was last written while a stream was in flight.
C39_RestoredNotStreaming ==
  [][(~mounted /\ mounted')
     => \A i \in DOMAIN chat'.messages : ~chat'.messages[i].isStreaming]_vars

\* C40: a failure of the metrics stream (an error event, a rejected request
\* or read) changes speedTestError and nothing else: the two message lists,
\* their error and loading fields, the cache and the session are as before,
\* and the left and right stream tasks and their abort controllers are left
\* as they were.
C40_MetricsFailureIsolated ==
  [][(MetricsErrorEvent \/ MetricsSettles)
     => /\ cmp' = cmp
        /\ run' = [run EXCEPT !.speedTestError = run'.speedTestError]
        /\ \A c \in 1..MaxCmpCalls :
             /\ cmpCalls'[c].left = cmpCalls[c].left
             /\ cmpCalls'[c].right = cmpCalls[c].right
        /\ activeRequestsRef' = activeRequestsRef
        /\ persistedComparisonChats' = persistedComparisonChats
        /\ activeSessions' = activeSessions]_vars

\* The metrics task of a call has failed and the call's left stream is open
\* and not aborted; its message has content, is streaming and has no error.
C40_Witness ==
  /\ cmpMounted
  /\ run.speedTestError = "Failed to load performance metrics"
  /\ \E c \in 1..MaxCmpCalls :
       /\ cmpCalls[c].inst = cmpInst
       /\ cmpCalls[c].metrics = "closed"
       /\ cmpCalls[c].left.pc = "stream"
       /\ ~cmpCalls[c].left.aborted
       /\ cmpCalls[c].left.content # <<>>
       /\ \E i \in DOMAIN cmp.leftChat.messages :
            /\ cmp.leftChat.messages[i].id = cmpCalls[c].leftId
            /\ cmp.leftChat.messages[i].isStreaming
            /\ cmp.leftChat.messages[i].content # <<>>
            /\ cmp.leftChat.messages[i].error = NoError

====
